---- MODULE Spec2Model ----
(***************************************************************************)
(* CaseLinker, Clustering & Analysis Layer (analysis.py): compare_cases,   *)
(* find_similar_cases, cluster_cases, detect_links, trend_analysis,        *)
(* select_cases_for_display; and Storage Layer (storage.py):               *)
(* GraphStorage.add_relationship, CaseStorage.store_case and get_case.     *)
(*                                                                         *)
(* The layer is a library of pure functions over case dictionaries.  Each  *)
(* specification below draws the arguments of one function from bounded    *)
(* sets (Init) and applies the function to them (its action), leaving the  *)
(* value it returns in `result`.                                           *)
(*                                                                         *)
(* Python values are modelled as follows.                                  *)
(*  - A dict is a record of fixed shape together with the set `keys` of    *)
(*    the keys it really holds; dict.get(k, default) is Get/DGet below.    *)
(*    A mapping-valued field may also hold None (`null`).                  *)
(*  - A str that is parsed (date_range.start) is the tuple of its          *)
(*    characters; the other strs are TLA+ strings.                         *)
(*  - A float similarity is the exact rational it denotes, counted in      *)
(*    units of 1/One.                                                      *)
(***************************************************************************)
EXTENDS Integers, Sequences, FiniteSets, TLC

VARIABLES
    pc,           \* "call" before the function is applied, "done" after
    case1,        \* compare_cases: first case
    case2,        \* compare_cases: second case
    metrics,      \* compare_cases / find_similar_cases: the metrics argument
    target_case,  \* find_similar_cases: the target
    cases,        \* the case list (all_cases / cases)
    threshold,    \* find_similar_cases / cluster_cases: threshold, in units
    dimension,    \* cluster_cases: the dimension argument
    grouping_criteria,  \* select_cases_for_display: the criteria argument
    op,           \* the function that is applied
    result,       \* the value returned
    edges,        \* GraphStorage: the rows of the table edges, in rowid order
    edge_seq,     \* GraphStorage: the largest id AUTOINCREMENT has handed out
    case_rows,    \* CaseStorage: the rows of the table cases
    victim_rows,  \* CaseStorage: the rows of the table victim_demographics
    perp_rows,    \* CaseStorage: the rows of the table perpetrator_demographics
    calls         \* the arguments of the storage calls made so far, in order

\* the databases of the storage layer
storage_vars == <<edges, edge_seq, case_rows, victim_rows, perp_rows, calls>>

vars == <<pc, case1, case2, metrics, target_case, cases, threshold, dimension,
          grouping_criteria, op, result, edges, edge_seq, case_rows, victim_rows,
          perp_rows, calls>>

\* the databases as init_database and init_graph_database create them
EmptyStorage ==
    /\ edges = <<>>
    /\ edge_seq = 0
    /\ case_rows = <<>>
    /\ victim_rows = <<>>
    /\ perp_rows = <<>>
    /\ calls = <<>>

(***************************************************************************)
(* Bounds of the model.                                                    *)
(***************************************************************************)
\* longest case list handed to an operation
MaxCases == 3
\* largest number of entries of a metrics list
MaxMetrics == 2

(***************************************************************************)
(* Numbers.  One is the number of units in the float 1.0: every weighted   *)
(* component the bounded inputs can produce is a whole number of units     *)
(* (set sizes up to 6, tenths, day counts over 365 and 1825).              *)
(***************************************************************************)
One == 1200 * 365

\* weights of compare_cases, in hundredths
PlatformWeight == 30
TechWeight == 20
CommWeight == 15
VictimWeight == 15
PerpWeight == 10
TimeWeight == 10
\* calculate_time_similarity
YearDays == 365
DecayDays == 1825
\* pattern_based_linking: the least number of shared values
MinShared == 2
\* trend_analysis: most_common(5) and most_common(10)
TopPerYear == 5
TopTopics == 10

\* a component similarity: the rational num/den
Rat(n, d) == [num |-> n, den |-> d]

\* component * weight (weight in hundredths), in units
Weighted(r, w) == (r.num * w * (One \div 100)) \div r.den

RECURSIVE SumSeq(_)
SumSeq(s) == IF s = <<>> THEN 0 ELSE s[1] + SumSeq(Tail(s))

SetOf(s) == {s[i] : i \in DOMAIN s}

(***************************************************************************)
(* Python values.                                                          *)
(***************************************************************************)
\* Python's None where a str is expected
None == "<None>"

\* a demographics value: None (null), or a dict with the keys in `keys`
EmptyDemo == [null |-> FALSE, keys |-> {}, age_range |-> None, region |-> None,
              anonymized_id |-> None]
NullDemo == [EmptyDemo EXCEPT !.null = TRUE]

\* a date_range value: None (null), or a dict with the keys in `keys`
EmptyDate == [null |-> FALSE, keys |-> {}, start |-> <<>>, end |-> <<>>]
NullDate == [EmptyDate EXCEPT !.null = TRUE]

\* a case dict that holds its id only
BlankCase == [keys |-> {"id"}, id |-> "C0", source |-> None,
              date_range |-> EmptyDate,
              victim_demographics |-> EmptyDemo,
              perpetrator_demographics |-> EmptyDemo,
              platforms_used |-> <<>>, technologies |-> <<>>,
              communication_methods |-> <<>>,
              investigation_methods_and_teams |-> <<>>,
              case_topics |-> <<>>]

\* d[k] = v on a dict
With(d, k, v) == [d EXCEPT ![k] = v, !.keys = @ \cup {k}]

\* case.get(k, default)
Get(c, k, default) == IF k \in c.keys THEN c[k] ELSE default

\* d.get(k) on a dict of strs: None when the key is absent
DGet(d, k) == IF k \in d.keys THEN d[k] ELSE None

\* a filter dict of select_cases_for_display: the keys it holds and their values
NoFilter == [keys |-> {}, source |-> None, platforms |-> <<>>, date_range |-> EmptyDate]

\* the grouping_criteria argument: None, or a dict with the keys in `keys`
NoCriteria == [none |-> TRUE, keys |-> {}, by |-> None, threshold |-> 0, filter |-> NoFilter]
EmptyCriteria == [NoCriteria EXCEPT !.none = FALSE]

\* truth value of a mapping-or-None: None and {} are false
Truthy(d) == ~d.null /\ d.keys # {}

\* truth value of a str-or-None
TruthyStr(s) == s # None /\ s # ""

(***************************************************************************)
(* datetime.fromisoformat and timedelta.days, for the forms YYYY-MM-DD,    *)
(* YYYY-MM-DD?HH:MM and YYYY-MM-DD?HH:MM:SS (? any one character).         *)
(***************************************************************************)
Digits == <<"0", "1", "2", "3", "4", "5", "6", "7", "8", "9">>

IsDigit(c) == \E i \in 1..10 : Digits[i] = c

DigitVal(c) == (CHOOSE i \in 1..10 : Digits[i] = c) - 1

\* s[i..j] are all digits
AllDigits(s, i, j) == \A k \in i..j : IsDigit(s[k])

RECURSIVE Num(_, _, _)
\* the number written by the digits s[i..j]
Num(s, i, j) == IF j < i THEN 0 ELSE 10 * Num(s, i, j - 1) + DigitVal(s[j])

IsLeap(y) == y % 4 = 0 /\ (y % 100 # 0 \/ y % 400 = 0)

MonthDays(y, m) ==
    IF m = 2 THEN (IF IsLeap(y) THEN 29 ELSE 28)
    ELSE IF m \in {4, 6, 9, 11} THEN 30 ELSE 31

RECURSIVE DaysBeforeMonth(_, _)
DaysBeforeMonth(y, m) == IF m <= 1 THEN 0 ELSE DaysBeforeMonth(y, m - 1) + MonthDays(y, m - 1)

\* date.toordinal()
Ordinal(y, m, d) ==
    (y - 1) * 365 + (y - 1) \div 4 - (y - 1) \div 100 + (y - 1) \div 400
    + DaysBeforeMonth(y, m) + d

DateShapeOK(s) ==
    /\ Len(s) \in {10, 16, 19}
    /\ AllDigits(s, 1, 4) /\ s[5] = "-" /\ AllDigits(s, 6, 7) /\ s[8] = "-"
    /\ AllDigits(s, 9, 10)
    /\ Len(s) >= 16 => AllDigits(s, 12, 13) /\ s[14] = ":" /\ AllDigits(s, 15, 16)
    /\ Len(s) = 19 => s[17] = ":" /\ AllDigits(s, 18, 19)

DateValueOK(s) ==
    /\ Num(s, 1, 4) >= 1
    /\ Num(s, 6, 7) \in 1..12
    /\ Num(s, 9, 10) \in 1..MonthDays(Num(s, 1, 4), Num(s, 6, 7))
    /\ Len(s) >= 16 => Num(s, 12, 13) < 24 /\ Num(s, 15, 16) < 60
    /\ Len(s) = 19 => Num(s, 18, 19) < 60

\* whether datetime.fromisoformat(s) returns (rather than raises ValueError)
Parses(s) == DateShapeOK(s) /\ DateValueOK(s)

\* datetime.fromisoformat(s), for a string that parses
FromIso(s) ==
    [year |-> Num(s, 1, 4),
     ord |-> Ordinal(Num(s, 1, 4), Num(s, 6, 7), Num(s, 9, 10)),
     sod |-> IF Len(s) = 10 THEN 0
             ELSE 3600 * Num(s, 12, 13) + 60 * Num(s, 15, 16)
                  + (IF Len(s) = 19 THEN Num(s, 18, 19) ELSE 0)]

\* (d1 - d2).days: a timedelta is normalised with 0 <= seconds < 86400, so
\* days is the floor of the difference in days
DeltaDays(d1, d2) == (d1.ord - d2.ord) + (IF d1.sod < d2.sod THEN -1 ELSE 0)

Abs(n) == IF n < 0 THEN -n ELSE n

(***************************************************************************)
(* compare_cases and calculate_time_similarity.                            *)
(***************************************************************************)
\* the metrics argument: None, or a list (only membership is ever asked)
NoMetrics == [none |-> TRUE, items |-> {}]
MetricList(S) == [none |-> FALSE, items |-> S]

\* `if metrics is None: metrics = ['all']`
MetricsOrAll(m) == IF m.none THEN {"all"} ELSE m.items

\* `'all' in metrics or name in metrics`
Enabled(m, name) == "all" \in MetricsOrAll(m) \/ name \in MetricsOrAll(m)

\* mutant: the Dice coefficient 2|a & b| / (|a| + |b|) in place of Jaccard's
Jaccard_Dice(a, b) ==
    IF a \cup b # {} THEN Rat(2 * Cardinality(a \cap b), Cardinality(a) + Cardinality(b))
    ELSE Rat(0, 1)

\* len(a & b) / len(a | b) if (a | b) else 0.0
Jaccard(a, b) ==
    IF a \cup b # {} THEN Rat(Cardinality(a \cap b), Cardinality(a \cup b))
    ELSE Rat(0, 1)

\* one Jaccard sub-metric: what it appends to similarity_scores
SetScores(c1, c2, field, w) ==
    LET a == SetOf(Get(c1, field, <<>>))
        b == SetOf(Get(c2, field, <<>>))
    IN  IF a # {} \/ b # {} THEN <<Weighted(Jaccard(a, b), w)>> ELSE <<>>

\* demo_sim, in tenths
VictimSim(v1, v2) ==
    Rat((IF DGet(v1, "age_range") = DGet(v2, "age_range") THEN 5 ELSE 0)
        + (IF DGet(v1, "region") = DGet(v2, "region") THEN 5 ELSE 0), 10)

\* mutant: the anonymized_id comparison left out
PerpSim_NoId(p1, p2) ==
    Rat((IF DGet(p1, "age_range") = DGet(p2, "age_range") THEN 3 ELSE 0)
        + (IF DGet(p1, "region") = DGet(p2, "region") THEN 3 ELSE 0), 10)

\* perp_sim, in tenths
PerpSim(p1, p2) ==
    Rat((IF DGet(p1, "age_range") = DGet(p2, "age_range") THEN 3 ELSE 0)
        + (IF DGet(p1, "region") = DGet(p2, "region") THEN 3 ELSE 0)
        + (IF /\ DGet(p1, "anonymized_id") = DGet(p2, "anonymized_id")
              /\ TruthyStr(DGet(p1, "anonymized_id"))
           THEN 4 ELSE 0), 10)

\* mutant: the long-range branch without max(0.0, ...)
TimeDecay_NoFloor(days) ==
    IF days <= YearDays THEN Rat(YearDays - days, YearDays)
    ELSE Rat(DecayDays - days, DecayDays)

\* the two branches on days_diff
TimeDecay(days) ==
    IF days <= YearDays THEN Rat(YearDays - days, YearDays)
    ELSE IF DecayDays - days > 0 THEN Rat(DecayDays - days, DecayDays)
    ELSE Rat(0, 1)

\* date.get('start') is a non-empty str
HasStart(d) == "start" \in d.keys /\ d.start # <<>>

calculate_time_similarity(date1, date2) ==
    IF HasStart(date1) /\ HasStart(date2)
    THEN IF Parses(date1.start) /\ Parses(date2.start)
         THEN TimeDecay(Abs(DeltaDays(FromIso(date1.start), FromIso(date2.start))))
         ELSE Rat(0, 1)
    ELSE Rat(0, 1)

PlatformScores(c1, c2, m) ==
    IF Enabled(m, "platforms")
    THEN SetScores(c1, c2, "platforms_used", PlatformWeight)
    ELSE <<>>

MethodScores(c1, c2, m) ==
    IF Enabled(m, "methods")
    THEN SetScores(c1, c2, "technologies", TechWeight)
         \o SetScores(c1, c2, "communication_methods", CommWeight)
    ELSE <<>>

VictimScores(c1, c2) ==
    LET victim1 == Get(c1, "victim_demographics", EmptyDemo)
        victim2 == Get(c2, "victim_demographics", EmptyDemo)
    IN  IF Truthy(victim1) /\ Truthy(victim2)
        THEN <<Weighted(VictimSim(victim1, victim2), VictimWeight)>>
        ELSE <<>>

PerpScores(c1, c2) ==
    LET perp1 == Get(c1, "perpetrator_demographics", EmptyDemo)
        perp2 == Get(c2, "perpetrator_demographics", EmptyDemo)
    IN  IF Truthy(perp1) /\ Truthy(perp2)
        THEN <<Weighted(PerpSim(perp1, perp2), PerpWeight)>>
        ELSE <<>>

DemographicScores(c1, c2, m) ==
    IF Enabled(m, "demographics")
    THEN VictimScores(c1, c2) \o PerpScores(c1, c2)
    ELSE <<>>

TimeScores(c1, c2, m) ==
    LET date1 == Get(c1, "date_range", EmptyDate)
        date2 == Get(c2, "date_range", EmptyDate)
    IN  IF Enabled(m, "time") /\ Truthy(date1) /\ Truthy(date2)
        THEN <<Weighted(calculate_time_similarity(date1, date2), TimeWeight)>>
        ELSE <<>>

\* the list similarity_scores at the return statement
similarity_scores(c1, c2, m) ==
    PlatformScores(c1, c2, m) \o MethodScores(c1, c2, m)
    \o DemographicScores(c1, c2, m) \o TimeScores(c1, c2, m)

\* the sum of the weights of the sub-metrics that appended a score
AppliedWeight(c1, c2, m) ==
    PlatformWeight * Len(PlatformScores(c1, c2, m))
    + (IF Enabled(m, "methods")
       THEN TechWeight * Len(SetScores(c1, c2, "technologies", TechWeight))
            + CommWeight * Len(SetScores(c1, c2, "communication_methods", CommWeight))
       ELSE 0)
    + (IF Enabled(m, "demographics")
       THEN VictimWeight * Len(VictimScores(c1, c2)) + PerpWeight * Len(PerpScores(c1, c2))
       ELSE 0)
    + TimeWeight * Len(TimeScores(c1, c2, m))

\* mutant: the sum renormalised by the weights that applied
compare_cases_Renormalised(c1, c2, m) ==
    IF AppliedWeight(c1, c2, m) = 0 THEN 0
    ELSE (SumSeq(similarity_scores(c1, c2, m)) * 100) \div AppliedWeight(c1, c2, m)

\* sum(similarity_scores) if similarity_scores else 0.0
compare_cases(c1, c2, m) == SumSeq(similarity_scores(c1, c2, m))

(***************************************************************************)
(* The cases the operations are applied to.                                *)
(***************************************************************************)
\* str(date), as the tuple of its characters
Date_2020_01_01 == <<"2", "0", "2", "0", "-", "0", "1", "-", "0", "1">>
Date_2020_03_01 == <<"2", "0", "2", "0", "-", "0", "3", "-", "0", "1">>
Date_2021_06_15 == <<"2", "0", "2", "1", "-", "0", "6", "-", "1", "5">>
Date_2023_01_01 == <<"2", "0", "2", "3", "-", "0", "1", "-", "0", "1">>
Date_2026_01_01 == <<"2", "0", "2", "6", "-", "0", "1", "-", "0", "1">>
Date_2020_01_01_noon ==
    <<"2", "0", "2", "0", "-", "0", "1", "-", "0", "1", "T", "1", "2", ":", "0", "0">>
Date_bad_month == <<"2", "0", "2", "0", "-", "1", "3", "-", "0", "1">>
Date_not_iso == <<"n", "/", "a">>

StartDate(s) == With(EmptyDate, "start", s)

Demo(age, region) == With(With(EmptyDemo, "age_range", age), "region", region)

Perp(age, region, id) == With(Demo(age, region), "anonymized_id", id)

\* cases that hold one scored field only, in every shape the field takes
PlatformOnly ==
    {With(BlankCase, "platforms_used", v) :
        v \in {<<>>, <<"Discord">>, <<"Telegram">>, <<"Discord", "Telegram">>,
               <<"Discord", "Discord">>}}

MethodOnly ==
    {With(BlankCase, "technologies", <<"vpn">>),
     With(BlankCase, "technologies", <<"vpn", "tor">>),
     With(BlankCase, "communication_methods", <<"chat">>)}

VictimOnly ==
    {With(BlankCase, "victim_demographics", v) :
        v \in {NullDemo, EmptyDemo, With(EmptyDemo, "region", "EU"),
               With(EmptyDemo, "age_range", "13-15"),
               Demo("13-15", "EU"), Demo("16-17", "EU")}}

PerpOnly ==
    {With(BlankCase, "perpetrator_demographics", v) :
        v \in {NullDemo, With(EmptyDemo, "anonymized_id", ""),
               With(EmptyDemo, "anonymized_id", "P1"), Demo("30-40", "EU"),
               Perp("30-40", "EU", "P1"), Perp("30-40", "US", "P2")}}

DateOnly ==
    {With(BlankCase, "date_range", v) :
        v \in {NullDate, EmptyDate, With(EmptyDate, "end", <<>>),
               StartDate(<<>>), StartDate(Date_not_iso), StartDate(Date_bad_month),
               StartDate(Date_2020_01_01), StartDate(Date_2020_01_01_noon),
               StartDate(Date_2020_03_01), StartDate(Date_2023_01_01),
               StartDate(Date_2026_01_01)}}

\* a case with every scored field populated
FullCase(plat, vic, perp, start) ==
    With(With(With(With(With(With(BlankCase,
        "platforms_used", plat),
        "technologies", <<"vpn">>),
        "communication_methods", <<"chat">>),
        "victim_demographics", vic),
        "perpetrator_demographics", perp),
        "date_range", StartDate(start))

FullCases ==
    {FullCase(plat, vic, perp, start) :
        plat \in {<<"Discord">>, <<"Discord", "Telegram">>},
        vic \in {Demo("13-15", "EU"), Demo("16-17", "EU")},
        perp \in {Perp("30-40", "EU", "P1"), Perp("30-40", "US", "P2")},
        start \in {Date_2020_01_01, Date_2023_01_01}}

ScoredCases ==
    {BlankCase} \cup PlatformOnly \cup MethodOnly \cup VictimOnly \cup PerpOnly
    \cup DateOnly \cup FullCases

MetricNames == {"platforms", "methods", "demographics", "time", "all"}

MetricArgs ==
    {NoMetrics} \cup {MetricList(S) : S \in {T \in SUBSET MetricNames : Cardinality(T) <= MaxMetrics}}

WithId(c, id) == [c EXCEPT !.id = id]

(***************************************************************************)
(* SpecCompare: compare_cases(case1, case2, metrics).                      *)
(***************************************************************************)
InitCompare ==
    /\ op = "compare"
    /\ grouping_criteria = NoCriteria
    /\ pc = "call"
    /\ case1 \in ScoredCases
    /\ case2 \in ScoredCases
    /\ metrics \in MetricArgs
    /\ target_case = BlankCase
    /\ cases = <<>>
    /\ threshold = 0
    /\ dimension = None
    /\ result = 0
    /\ EmptyStorage

\* a case dict after the call: compare_cases reads it with .get() and builds
\* sets from copies of its lists; no statement writes to it
case_after_compare(c) == c

Compare ==
    /\ op = "compare"
    /\ pc = "call"
    /\ pc' = "done"
    /\ result' = compare_cases(case1, case2, metrics)
    /\ case1' = case_after_compare(case1)
    /\ case2' = case_after_compare(case2)
    /\ UNCHANGED <<metrics, target_case, cases, threshold, dimension, grouping_criteria, op>>
    /\ UNCHANGED storage_vars

NextCompare == Compare

SpecCompare == InitCompare /\ [][NextCompare]_vars

(***************************************************************************)
(* Case lists.  The ids of a list are unique: the case at position i has   *)
(* id Ids[i].                                                              *)
(***************************************************************************)
Ids == <<"C1", "C2", "C3", "C4", "C5">>

\* `cases` is a list of at most MaxCases cases whose bodies are drawn from B
CasesFrom(B) ==
    \E n \in 0..MaxCases : \E f \in [1..n -> B] :
        cases = [i \in 1..n |-> WithId(f[i], Ids[i])]

Full_A == FullCase(<<"Discord">>, Demo("13-15", "EU"), Perp("30-40", "EU", "P1"), Date_2020_01_01)
Full_B == FullCase(<<"Discord", "Telegram">>, Demo("13-15", "EU"), Perp("30-40", "EU", "P1"), Date_2020_01_01)
Full_C == FullCase(<<"Discord">>, Demo("16-17", "EU"), Perp("30-40", "US", "P2"), Date_2023_01_01)
Plat_D == With(BlankCase, "platforms_used", <<"Discord">>)
Plat_T == With(BlankCase, "platforms_used", <<"Telegram">>)
Plat_DT == With(BlankCase, "platforms_used", <<"Discord", "Telegram">>)
Date_A == With(BlankCase, "date_range", StartDate(Date_2020_01_01))

\* thresholds, in hundredths
ThresholdsPct == {0, 15, 30, 50, 100}
Thresholds == {(t * One) \div 100 : t \in ThresholdsPct}

(***************************************************************************)
(* find_similar_cases.                                                     *)
(***************************************************************************)
RECURSIVE InsertDesc(_, _)
\* x put behind every entry whose score is >= its own
InsertDesc(sorted, x) ==
    IF sorted = <<>> THEN <<x>>
    ELSE IF sorted[1][2] >= x[2] THEN <<sorted[1]>> \o InsertDesc(Tail(sorted), x)
    ELSE <<x>> \o sorted

RECURSIVE SortDescStable(_)
\* list.sort(key=lambda x: x[1], reverse=True): descending, and stable
\* (entries with equal keys keep their order)
SortDescStable(s) ==
    IF s = <<>> THEN <<>>
    ELSE InsertDesc(SortDescStable(SubSeq(s, 1, Len(s) - 1)), s[Len(s)])

RECURSIVE ReverseSeq(_)
ReverseSeq(s) == IF s = <<>> THEN <<>> ELSE Append(ReverseSeq(Tail(s)), s[1])

\* mutant: sorted ascending and then reversed, which reverses the ties
SortDesc_ReversedAscending(s) == SortDescStable(ReverseSeq(s))

\* similar_cases.sort(key=lambda x: x[1], reverse=True)
SortSimilar(s) == SortDescStable(s)

\* mutant: `>` for `>=`
Qualifies_Strict(similarity, th) == similarity > th

\* `if similarity >= threshold`
Qualifies(similarity, th) == similarity >= th

\* mutant: the target is not skipped
IsSelf_Never(c, target) == FALSE

\* `if case.get('id') == target_case.get('id')`
IsSelf(c, target) == Get(c, "id", None) = Get(target, "id", None)

RECURSIVE FindLoop(_, _, _, _, _, _)
\* the for loop over all_cases, from position i on, with similar_cases = acc
FindLoop(target, cs, i, acc, th, m) ==
    IF i > Len(cs) THEN acc
    ELSE IF IsSelf(cs[i], target) THEN FindLoop(target, cs, i + 1, acc, th, m)
    ELSE LET similarity == compare_cases(target, cs[i], m)
         IN  FindLoop(target, cs, i + 1,
                      IF Qualifies(similarity, th) THEN Append(acc, <<cs[i], similarity>>)
                      ELSE acc,
                      th, m)

find_similar_cases(target, cs, th, m) == SortSimilar(FindLoop(target, cs, 1, <<>>, th, m))

FindBodies == {Full_A, Full_B, Full_C, Plat_D, BlankCase}

FindMetrics == {NoMetrics, MetricList({"platforms"}), MetricList({"demographics", "time"})}

(***************************************************************************)
(* SpecFind: find_similar_cases(target_case, all_cases, threshold, metrics) *)
(***************************************************************************)
InitFind ==
    /\ op = "find"
    /\ grouping_criteria = NoCriteria
    /\ pc = "call"
    /\ target_case \in {WithId(b, id) : b \in FindBodies, id \in {"C1", "T"}}
    /\ CasesFrom(FindBodies)
    /\ threshold \in Thresholds
    /\ metrics \in FindMetrics
    /\ case1 = BlankCase
    /\ case2 = BlankCase
    /\ dimension = None
    /\ result = <<>>
    /\ EmptyStorage

\* mutant: the sort is applied to all_cases, in place
all_cases_after_find_Sorted(cs) == ReverseSeq(cs)

\* all_cases after the call: the loop reads it, and what is appended to and
\* sorted is the new list similar_cases
all_cases_after_find(cs) == cs

Find ==
    /\ op = "find"
    /\ pc = "call"
    /\ pc' = "done"
    /\ result' = find_similar_cases(target_case, cases, threshold, metrics)
    /\ cases' = all_cases_after_find(cases)
    /\ UNCHANGED <<case1, case2, metrics, target_case, threshold, dimension, grouping_criteria, op>>
    /\ UNCHANGED storage_vars

NextFind == Find

SpecFind == InitFind /\ [][NextFind]_vars

(***************************************************************************)
(* cluster_cases.                                                          *)
(***************************************************************************)
\* mutant: the dimension is not looked at, every metric is compared
DimensionMetrics_Ignored(dim) == NoMetrics

\* the metrics the inner loop derives from `dimension`
DimensionMetrics(dim) ==
    IF dim = "platform" THEN MetricList({"platforms"})
    ELSE IF dim = "method" THEN MetricList({"methods"})
    ELSE IF dim = "region" THEN MetricList({"demographics"})
    ELSE IF dim = "time" THEN MetricList({"time"})
    ELSE NoMetrics

\* mutant: a case that joins a cluster is not marked as assigned
MarkAssigned_Forgotten(assigned, j) == assigned

\* assigned.add(j)
MarkAssigned(assigned, j) == assigned \cup {j}

RECURSIVE ClusterScan_Chained(_, _, _, _, _, _)
\* mutant: a case is compared with the member that joined last, not the seed
ClusterScan_Chained(cs, i, j, st, th, dim) ==
    IF j > Len(cs) THEN st
    ELSE IF j \in st.assigned THEN ClusterScan_Chained(cs, i, j + 1, st, th, dim)
    ELSE IF compare_cases(st.cluster[Len(st.cluster)], cs[j], DimensionMetrics(dim)) >= th
         THEN ClusterScan_Chained(cs, i, j + 1,
                                  [cluster |-> Append(st.cluster, cs[j]),
                                   assigned |-> st.assigned \cup {j}],
                                  th, dim)
         ELSE ClusterScan_Chained(cs, i, j + 1, st, th, dim)

RECURSIVE ClusterScan(_, _, _, _, _, _)
\* mutant: the scan for seed i starts at cases[i+2:], passing over the case
\* next to the seed
ClusterScan_SkipNext(cs, i, j, st, th, dim) ==
    IF j > Len(cs) THEN st
    ELSE IF j = i + 1 \/ j \in st.assigned THEN ClusterScan(cs, i, j + 1, st, th, dim)
    ELSE IF compare_cases(cs[i], cs[j], DimensionMetrics(dim)) >= th
         THEN ClusterScan(cs, i, j + 1,
                          [cluster |-> Append(st.cluster, cs[j]),
                           assigned |-> st.assigned \cup {j}],
                          th, dim)
         ELSE ClusterScan(cs, i, j + 1, st, th, dim)

\* the inner loop for seed i, from position j on; st = [cluster, assigned]
ClusterScan(cs, i, j, st, th, dim) ==
    IF j > Len(cs) THEN st
    ELSE IF j \in st.assigned THEN ClusterScan(cs, i, j + 1, st, th, dim)
    ELSE IF compare_cases(cs[i], cs[j], DimensionMetrics(dim)) >= th
         THEN ClusterScan(cs, i, j + 1,
                          [cluster |-> Append(st.cluster, cs[j]),
                           assigned |-> MarkAssigned(st.assigned, j)],
                          th, dim)
         ELSE ClusterScan(cs, i, j + 1, st, th, dim)

RECURSIVE ClusterLoop(_, _, _, _, _, _)
\* the outer loop from position i on
ClusterLoop(cs, i, clusters, assigned, th, dim) ==
    IF i > Len(cs) THEN clusters
    ELSE IF i \in assigned THEN ClusterLoop(cs, i + 1, clusters, assigned, th, dim)
    ELSE LET st == ClusterScan(cs, i, i + 1,
                               [cluster |-> <<cs[i]>>, assigned |-> assigned \cup {i}],
                               th, dim)
         IN  ClusterLoop(cs, i + 1,
                         IF st.cluster # <<>> THEN Append(clusters, st.cluster) ELSE clusters,
                         st.assigned, th, dim)

\* mutant: clusters.insert(0, cluster) for clusters.append(cluster)
cluster_cases_NewestFirst(cs, th, dim) ==
    IF cs = <<>> THEN <<>> ELSE ReverseSeq(ClusterLoop(cs, 1, <<>>, {}, th, dim))

cluster_cases(cs, th, dim) ==
    IF cs = <<>> THEN <<>> ELSE ClusterLoop(cs, 1, <<>>, {}, th, dim)

ClusterBodies == {Full_A, Full_B, Full_C, Plat_D, Plat_T, Plat_DT, Date_A, BlankCase}

Dimensions == {None, "platform", "method", "region", "time", "victim"}

(***************************************************************************)
(* SpecCluster: cluster_cases(cases, threshold, dimension).                *)
(***************************************************************************)
InitCluster ==
    /\ op = "cluster"
    /\ grouping_criteria = NoCriteria
    /\ pc = "call"
    /\ CasesFrom(ClusterBodies)
    /\ threshold \in Thresholds
    /\ dimension \in Dimensions
    /\ case1 = BlankCase
    /\ case2 = BlankCase
    /\ metrics = NoMetrics
    /\ target_case = BlankCase
    /\ result = <<>>
    /\ EmptyStorage

\* cases after the call: each cluster is a new list ([case1], then append);
\* cases is enumerated and sliced, never written
cases_after_cluster(cs) == cs

Cluster ==
    /\ op = "cluster"
    /\ pc = "call"
    /\ pc' = "done"
    /\ result' = cluster_cases(cases, threshold, dimension)
    /\ cases' = cases_after_cluster(cases)
    /\ UNCHANGED <<case1, case2, metrics, target_case, threshold, dimension, grouping_criteria, op>>
    /\ UNCHANGED storage_vars

NextCluster == Cluster

SpecCluster == InitCluster /\ [][NextCluster]_vars

(***************************************************************************)
(* detect_links, entity_matching, pattern_based_linking.                   *)
(*                                                                         *)
(* A defaultdict(list) is the sequence of its <<key, list>> items in       *)
(* insertion order.  A call that raises returns [raised |-> TRUE].         *)
(***************************************************************************)
Returned(v) == [raised |-> FALSE, value |-> v]
Raised == [raised |-> TRUE, value |-> <<>>]

RECURSIVE MapAppend(_, _, _)
\* map[key].append(x)
MapAppend(map, key, x) ==
    IF map = <<>> THEN <<<<key, <<x>>>>>>
    ELSE IF map[1][1] = key THEN <<<<key, Append(map[1][2], x)>>>> \o Tail(map)
    ELSE <<map[1]>> \o MapAppend(Tail(map), key, x)

RECURSIVE MapExtend(_, _, _)
\* for key in keys: map[key].append(x)
MapExtend(map, keys, x) ==
    IF keys = <<>> THEN map
    ELSE MapExtend(MapAppend(map, keys[1], x), Tail(keys), x)

RECURSIVE PairsFrom(_, _, _)
\* for i, cid1 in enumerate(case_ids): for cid2 in case_ids[i+1:]: the tuples
\* (cid1, cid2, tag), from position i on
PairsFrom(case_ids, i, tag) ==
    IF i > Len(case_ids) THEN <<>>
    ELSE [k \in 1..(Len(case_ids) - i) |-> <<case_ids[i], case_ids[i + k], tag>>]
         \o PairsFrom(case_ids, i + 1, tag)

RECURSIVE GroupLinks(_, _)
\* for key, case_ids in map.items(): if len(case_ids) > 1: the pairs
GroupLinks(map, tag) ==
    IF map = <<>> THEN <<>>
    ELSE (IF Len(map[1][2]) > 1 THEN PairsFrom(map[1][2], 1, tag) ELSE <<>>)
         \o GroupLinks(Tail(map), tag)

\* case.get('perpetrator_demographics', {}).get('anonymized_id') raises
\* AttributeError when the value stored under the key is None
PerpLookupRaises(c) == Get(c, "perpetrator_demographics", EmptyDemo).null

RECURSIVE PerpMap(_, _, _)
\* the first loop of entity_matching, from position i on
PerpMap(cs, i, map) ==
    IF i > Len(cs) THEN map
    ELSE LET perp_id == DGet(Get(cs[i], "perpetrator_demographics", EmptyDemo), "anonymized_id")
         IN  PerpMap(cs, i + 1,
                     IF TruthyStr(perp_id) THEN MapAppend(map, perp_id, Get(cs[i], "id", None))
                     ELSE map)

RECURSIVE PlatformMap(_, _, _)
\* the third loop of entity_matching, from position i on
PlatformMap(cs, i, map) ==
    IF i > Len(cs) THEN map
    ELSE PlatformMap(cs, i + 1,
                     MapExtend(map, Get(cs[i], "platforms_used", <<>>), Get(cs[i], "id", None)))

entity_matching(cs) ==
    IF \E i \in DOMAIN cs : PerpLookupRaises(cs[i]) THEN Raised
    ELSE Returned(GroupLinks(PerpMap(cs, 1, <<>>), "same_perpetrator")
                  \o GroupLinks(PlatformMap(cs, 1, <<>>), "same_platform"))

\* `a and b and len(a & b) >= 2` on two lists turned into sets
SharesEnough(l1, l2) ==
    /\ SetOf(l1) # {} /\ SetOf(l2) # {}
    /\ Cardinality(SetOf(l1) \cap SetOf(l2)) >= MinShared

\* what the body of the inner loop appends for the pair (c1, c2)
PatternLinks(c1, c2) ==
    (IF SharesEnough(Get(c1, "investigation_methods_and_teams", <<>>),
                     Get(c2, "investigation_methods_and_teams", <<>>))
     THEN <<<<Get(c1, "id", None), Get(c2, "id", None), "similar_investigation">>>>
     ELSE <<>>)
    \o (IF SharesEnough(Get(c1, "case_topics", <<>>), Get(c2, "case_topics", <<>>))
        THEN <<<<Get(c1, "id", None), Get(c2, "id", None), "similar_topics">>>>
        ELSE <<>>)

RECURSIVE PatternLoop(_, _, _)
\* the two loops of pattern_based_linking, from the pair (i, j) on
PatternLoop(cs, i, j) ==
    IF i > Len(cs) THEN <<>>
    ELSE IF j > Len(cs) THEN PatternLoop(cs, i + 1, i + 2)
    ELSE PatternLinks(cs[i], cs[j]) \o PatternLoop(cs, i, j + 1)

pattern_based_linking(cs) == PatternLoop(cs, 1, 2)

detect_links(cs) ==
    IF entity_matching(cs).raised THEN Raised
    ELSE Returned(entity_matching(cs).value \o pattern_based_linking(cs))

\* the shapes perpetrator_demographics, platforms_used,
\* investigation_methods_and_teams and case_topics take
LinkCase(perp, plat, inv, topics) ==
    With(With(With(With(BlankCase,
        "perpetrator_demographics", perp),
        "platforms_used", plat),
        "investigation_methods_and_teams", inv),
        "case_topics", topics)

LinkBodies ==
    {BlankCase,
     LinkCase(Perp("30-40", "EU", "P1"), <<"Discord">>, <<"osint", "warrant">>, <<"grooming", "sextortion">>),
     LinkCase(With(EmptyDemo, "anonymized_id", "P1"), <<"Discord", "Telegram">>,
              <<"osint", "warrant", "icac">>, <<"grooming">>),
     LinkCase(With(EmptyDemo, "anonymized_id", "P2"), <<"Telegram">>, <<"osint">>,
              <<"sextortion", "grooming", "csam">>),
     LinkCase(With(EmptyDemo, "anonymized_id", ""), <<"Telegram", "Discord">>,
              <<"warrant", "icac">>, <<"csam", "sextortion">>),
     LinkCase(EmptyDemo, <<>>, <<>>, <<>>),
     LinkCase(Demo("30-40", "EU"), <<"Telegram">>, <<"osint", "warrant">>, <<"grooming", "sextortion">>),
     LinkCase(With(EmptyDemo, "anonymized_id", "P1"), <<"Discord", "Discord">>, <<"osint", "osint">>,
              <<"grooming", "grooming">>),
     LinkCase(NullDemo, <<"Discord">>, <<"osint", "warrant">>, <<"grooming", "sextortion">>)}

(***************************************************************************)
(* SpecLinks: detect_links(cases).                                         *)
(***************************************************************************)
InitLinks ==
    /\ op = "links"
    /\ grouping_criteria = NoCriteria
    /\ pc = "call"
    /\ CasesFrom(LinkBodies)
    /\ threshold = 0
    /\ dimension = None
    /\ case1 = BlankCase
    /\ case2 = BlankCase
    /\ metrics = NoMetrics
    /\ target_case = BlankCase
    /\ result = Returned(<<>>)
    /\ EmptyStorage

\* cases after the call: links and the two maps are new objects holding ids
cases_after_links(cs) == cs

DetectLinks ==
    /\ op = "links"
    /\ pc = "call"
    /\ pc' = "done"
    /\ result' = detect_links(cases)
    /\ cases' = cases_after_links(cases)
    /\ UNCHANGED <<case1, case2, metrics, target_case, threshold, dimension, grouping_criteria, op>>
    /\ UNCHANGED storage_vars

NextLinks == DetectLinks

SpecLinks == InitLinks /\ [][NextLinks]_vars

(***************************************************************************)
(* trend_analysis.                                                         *)
(*                                                                         *)
(* A dict (defaultdict, Counter) is the sequence of its <<key, value>>     *)
(* items in insertion order.                                               *)
(***************************************************************************)
\* whether the case is put into a bucket of time_periods: its date_range is
\* a dict whose start is a non-empty str that fromisoformat accepts
IsDated(c) ==
    LET date_range == Get(c, "date_range", EmptyDate)
    IN  ~date_range.null /\ HasStart(date_range) /\ Parses(date_range.start)

YearOf(c) == FromIso(Get(c, "date_range", EmptyDate).start).year

RECURSIVE TimePeriods(_, _, _)
\* the loop that fills time_periods, from position i on
TimePeriods(cs, i, map) ==
    IF i > Len(cs) THEN map
    ELSE TimePeriods(cs, i + 1,
                     IF IsDated(cs[i]) THEN MapAppend(map, YearOf(cs[i]), cs[i]) ELSE map)

RECURSIVE InsertByKey(_, _)
InsertByKey(sorted, x) ==
    IF sorted = <<>> THEN <<x>>
    ELSE IF sorted[1][1] <= x[1] THEN <<sorted[1]>> \o InsertByKey(Tail(sorted), x)
    ELSE <<x>> \o sorted

RECURSIVE SortedItems(_)
\* sorted(map.items()), the keys being distinct
SortedItems(map) ==
    IF map = <<>> THEN <<>>
    ELSE InsertByKey(SortedItems(SubSeq(map, 1, Len(map) - 1)), map[Len(map)])

RECURSIVE Extended(_, _, _)
\* for case in year_cases: values.extend(case.get(field, []))
Extended(year_cases, i, field) ==
    IF i > Len(year_cases) THEN <<>>
    ELSE Get(year_cases[i], field, <<>>) \o Extended(year_cases, i + 1, field)

RECURSIVE CountUp(_, _)
\* counter[x] += 1
CountUp(counter, x) ==
    IF counter = <<>> THEN <<<<x, 1>>>>
    ELSE IF counter[1][1] = x THEN <<<<x, counter[1][2] + 1>>>> \o Tail(counter)
    ELSE <<counter[1]>> \o CountUp(Tail(counter), x)

RECURSIVE Counter(_)
\* Counter(values): the counts, in the order the values were first seen
Counter(values) ==
    IF values = <<>> THEN <<>>
    ELSE CountUp(Counter(SubSeq(values, 1, Len(values) - 1)), values[Len(values)])

Take(s, n) == SubSeq(s, 1, IF Len(s) < n THEN Len(s) ELSE n)

\* mutant: among equal counts the value seen last comes first
most_common_LastSeenFirst(counter, n) == Take(SortDesc_ReversedAscending(counter), n)

\* Counter.most_common(n): the n largest counts, equal counts in the order
\* the values were first seen
most_common(counter, n) == Take(SortDescStable(counter), n)

RECURSIVE YearTrends(_, _)
\* for year, year_cases in sorted(time_periods.items()):
\*     trends[...][year] = dict(Counter(values).most_common(5))
YearTrends(periods, field) ==
    IF periods = <<>> THEN <<>>
    ELSE <<<<periods[1][1],
             most_common(Counter(Extended(periods[1][2], 1, field)), TopPerYear)>>>>
         \o YearTrends(Tail(periods), field)

\* mutant: the topics are counted over the cases that have a year only
RecurringTopics_DatedOnly(cs) ==
    LET dated == SelectSeq(cs, IsDated)
        top == most_common(Counter(Extended(dated, 1, "case_topics")), TopTopics)
    IN  [k \in DOMAIN top |-> top[k][1]]

\* [topic for topic, count in topic_counts.most_common(10)]
RecurringTopics(cs) ==
    LET top == most_common(Counter(Extended(cs, 1, "case_topics")), TopTopics)
    IN  [k \in DOMAIN top |-> top[k][1]]

trend_analysis(cs) ==
    [platform_trends |-> YearTrends(SortedItems(TimePeriods(cs, 1, <<>>)), "platforms_used"),
     technology_trends |-> YearTrends(SortedItems(TimePeriods(cs, 1, <<>>)), "technologies"),
     method_evolution |-> <<>>,
     recurring_topics |-> RecurringTopics(cs),
     temporal_patterns |-> <<>>]

\* the shapes date_range, platforms_used, technologies and case_topics take
TrendCase(date, plat, tech, topics) ==
    With(With(With(With(BlankCase,
        "date_range", date),
        "platforms_used", plat),
        "technologies", tech),
        "case_topics", topics)

TrendBodies ==
    {BlankCase,
     TrendCase(StartDate(Date_2021_06_15), <<"A">>, <<"vpn">>, <<"grooming">>),
     TrendCase(StartDate(Date_2021_06_15), <<"B">>, <<"tor">>, <<"sextortion">>),
     TrendCase(StartDate(Date_2021_06_15), <<"A", "B", "C">>, <<"vpn", "tor", "p2p">>,
               <<"grooming", "csam">>),
     TrendCase(StartDate(Date_2021_06_15), <<"D", "E", "F">>, <<"e2ee", "vm", "proxy">>,
               <<"csam">>),
     TrendCase(StartDate(Date_2021_06_15), <<"F", "A">>, <<"proxy", "vpn">>, <<>>),
     TrendCase(StartDate(Date_2021_06_15), <<"B", "B">>, <<>>, <<"grooming", "grooming">>),
     TrendCase(StartDate(Date_2020_01_01_noon), <<"A">>, <<"vpn">>, <<"sextortion">>),
     TrendCase(StartDate(Date_not_iso), <<"B">>, <<"tor">>, <<"grooming">>),
     TrendCase(NullDate, <<"A">>, <<"vpn">>, <<"csam">>),
     TrendCase(EmptyDate, <<"C">>, <<"tor">>, <<"csam", "grooming">>),
     TrendCase(StartDate(Date_bad_month), <<"A">>, <<"vpn">>,
               <<"t1", "t2", "t3", "t4", "t5", "t6">>),
     With(BlankCase, "case_topics", <<"t7", "t8", "t9", "t10", "t11", "t1">>)}

(***************************************************************************)
(* SpecTrends: trend_analysis(cases).                                      *)
(***************************************************************************)
InitTrends ==
    /\ op = "trends"
    /\ grouping_criteria = NoCriteria
    /\ pc = "call"
    /\ CasesFrom(TrendBodies)
    /\ threshold = 0
    /\ dimension = None
    /\ case1 = BlankCase
    /\ case2 = BlankCase
    /\ metrics = NoMetrics
    /\ target_case = BlankCase
    /\ result = [platform_trends |-> <<>>, technology_trends |-> <<>>,
                 method_evolution |-> <<>>, recurring_topics |-> <<>>,
                 temporal_patterns |-> <<>>]
    /\ EmptyStorage

\* cases after the call: the buckets and the lists that are extended are new
\* lists; a case's own lists are only read
cases_after_trends(cs) == cs

TrendAnalysis ==
    /\ op = "trends"
    /\ pc = "call"
    /\ pc' = "done"
    /\ result' = trend_analysis(cases)
    /\ cases' = cases_after_trends(cases)
    /\ UNCHANGED <<case1, case2, metrics, target_case, threshold, dimension, grouping_criteria, op>>
    /\ UNCHANGED storage_vars

NextTrends == TrendAnalysis

SpecTrends == InitTrends /\ [][NextTrends]_vars

(***************************************************************************)
(* select_cases_for_display and matches_filter.                            *)
(*                                                                         *)
(* The value returned is the list of groups together with, for each group, *)
(* the list object it is: "input" for the caller's list `cases` itself,    *)
(* "new" for a list built during the call.                                 *)
(***************************************************************************)
\* datetime < datetime
DtLess(a, b) == a.ord < b.ord \/ (a.ord = b.ord /\ a.sod < b.sod)

\* `'source' in filters and case.get('source') != filters['source']` is false
SourceMatches(c, filters) ==
    ~("source" \in filters.keys /\ Get(c, "source", None) # filters.source)

\* the 'platforms' block does not return False
PlatformsMatch(c, filters) ==
    "platforms" \in filters.keys =>
        SetOf(Get(c, "platforms_used", <<>>)) \cap SetOf(filters.platforms) # {}

\* date.get('end') is a non-empty str
HasEnd(d) == "end" \in d.keys /\ d.end # <<>>

\* the `if filter_end:` block, reached with case_dt parsed: False is returned
\* only when the end parses and case_dt is after it (a ValueError is passed)
EndMatches(case_dt, filter_date) ==
    IF HasEnd(filter_date)
    THEN IF Parses(filter_date.end) THEN ~DtLess(FromIso(filter_date.end), case_dt)
         ELSE TRUE
    ELSE TRUE

\* the 'date_range' block does not return False
DateMatches(c, filters) ==
    IF "date_range" \notin filters.keys THEN TRUE
    ELSE LET case_date == Get(c, "date_range", EmptyDate)
             filter_date == filters.date_range
         IN  IF case_date.null \/ filter_date.null THEN TRUE
             ELSE IF ~HasStart(case_date) THEN TRUE
             ELSE IF ~Parses(case_date.start) THEN TRUE
             ELSE IF HasStart(filter_date)
                  THEN IF ~Parses(filter_date.start) THEN TRUE
                       ELSE IF DtLess(FromIso(case_date.start), FromIso(filter_date.start))
                            THEN FALSE
                            ELSE EndMatches(FromIso(case_date.start), filter_date)
                  ELSE EndMatches(FromIso(case_date.start), filter_date)

matches_filter(c, filters) ==
    SourceMatches(c, filters) /\ PlatformsMatch(c, filters) /\ DateMatches(c, filters)

\* [c for c in cases if matches_filter(c, filters)]
FilteredList(cs, filters) ==
    LET keep(c) == matches_filter(c, filters)
    IN  SelectSeq(cs, keep)

\* filtered_cases: the list, and the list object it is
filtered_cases(cs, criteria) ==
    IF "filter" \in criteria.keys
    THEN [items |-> FilteredList(cs, criteria.filter), ref |-> "new"]
    ELSE [items |-> cs, ref |-> "input"]

\* mutant: the threshold of the criteria is ignored
ThresholdOrDefault_Ignored(criteria) == One \div 2

\* grouping_criteria.get('threshold', 0.5)
ThresholdOrDefault(criteria) ==
    IF "threshold" \in criteria.keys THEN criteria.threshold ELSE One \div 2

\* list(groups.values())
GroupValues(map) == [k \in DOMAIN map |-> map[k][2]]

\* groups that are all lists built during the call
NewGroups(groups) ==
    [raised |-> FALSE, value |-> groups, refs |-> [k \in DOMAIN groups |-> "new"]]

SelectRaised == [raised |-> TRUE, value |-> <<>>, refs |-> <<>>]

RECURSIVE PlatformGroups(_, _, _)
\* the loop of the 'platform' branch, from position i on
PlatformGroups(cs, i, map) ==
    IF i > Len(cs) THEN map
    ELSE PlatformGroups(cs, i + 1, MapExtend(map, Get(cs[i], "platforms_used", <<>>), cs[i]))

\* case.get('victim_demographics', {}).get('region') raises AttributeError
\* when the value stored under the key is None
RegionLookupRaises(c) == Get(c, "victim_demographics", EmptyDemo).null

RECURSIVE RegionGroups(_, _, _)
\* the loop of the 'region' branch, from position i on
RegionGroups(cs, i, map) ==
    IF i > Len(cs) THEN map
    ELSE LET region == DGet(Get(cs[i], "victim_demographics", EmptyDemo), "region")
         IN  RegionGroups(cs, i + 1,
                          IF TruthyStr(region) THEN MapAppend(map, region, cs[i]) ELSE map)

RECURSIVE TimeGroups(_, _, _)
\* the loop of the 'time' branch, from position i on
TimeGroups(cs, i, map) ==
    IF i > Len(cs) THEN map
    ELSE TimeGroups(cs, i + 1,
                    IF IsDated(cs[i]) THEN MapAppend(map, YearOf(cs[i]), cs[i]) ELSE map)

\* the branches on grouping_method, for a criteria dict
GroupBy(cs, criteria) ==
    LET filtered == filtered_cases(cs, criteria)
        grouping_method == IF "by" \in criteria.keys THEN criteria.by ELSE "cluster"
    IN  IF grouping_method = "cluster"
        THEN NewGroups(cluster_cases(filtered.items, ThresholdOrDefault(criteria), None))
        ELSE IF grouping_method = "platform"
        THEN NewGroups(GroupValues(PlatformGroups(filtered.items, 1, <<>>)))
        ELSE IF grouping_method = "region"
        THEN IF \E i \in DOMAIN filtered.items : RegionLookupRaises(filtered.items[i])
             THEN SelectRaised
             ELSE NewGroups(GroupValues(RegionGroups(filtered.items, 1, <<>>)))
        ELSE IF grouping_method = "time"
        THEN NewGroups(GroupValues(TimeGroups(filtered.items, 1, <<>>)))
        ELSE IF grouping_method = "similarity"
        THEN NewGroups(cluster_cases(filtered.items, ThresholdOrDefault(criteria), None))
        ELSE [raised |-> FALSE, value |-> <<filtered.items>>, refs |-> <<filtered.ref>>]

\* `if grouping_criteria is None: grouping_criteria = {'by': 'cluster', 'threshold': 0.5}`
CriteriaOrDefault(criteria) ==
    IF criteria.none
    THEN With(With(EmptyCriteria, "by", "cluster"), "threshold", One \div 2)
    ELSE criteria

select_cases_for_display(cs, criteria) == GroupBy(cs, CriteriaOrDefault(criteria))

\* cases as the ingestion pipeline stores them: a source, category lists,
\* and the mappings populated, partly populated, absent or null
Core_A == With(Full_A, "source", "ncmec")
Core_B ==
    With(With(With(With(BlankCase,
        "source", "doj"),
        "platforms_used", <<"Discord", "Telegram">>),
        "date_range", StartDate(Date_2021_06_15)),
        "victim_demographics", With(EmptyDemo, "region", "US"))
Core_C ==
    With(With(With(BlankCase,
        "source", "ncmec"),
        "platforms_used", <<"Telegram", "Telegram">>),
        "date_range", StartDate(Date_not_iso))
Core_D ==
    With(With(With(With(BlankCase,
        "platforms_used", <<"Discord">>),
        "date_range", NullDate),
        "victim_demographics", NullDemo),
        "perpetrator_demographics", NullDemo)
Core_E ==
    With(With(With(With(BlankCase,
        "source", "ncmec"),
        "platforms_used", <<"Telegram">>),
        "date_range", StartDate(Date_2020_01_01_noon)),
        "victim_demographics", Demo("13-15", "EU"))

CoreBodies == {Core_A, Core_B, Core_C, Core_D, Core_E, BlankCase}

\* filter dicts
Window(start, end) == With(With(EmptyDate, "start", start), "end", end)

Filters ==
    {NoFilter,
     With(NoFilter, "source", "ncmec"),
     With(NoFilter, "platforms", <<"Discord">>),
     With(NoFilter, "date_range", Window(Date_2020_01_01, Date_2020_03_01)),
     With(NoFilter, "date_range", StartDate(Date_2020_03_01)),
     With(NoFilter, "date_range", With(EmptyDate, "end", Date_2020_01_01)),
     With(With(With(NoFilter, "source", "ncmec"), "platforms", <<"Telegram", "Signal">>),
          "date_range", Window(Date_2020_01_01, Date_2023_01_01)),
     With(NoFilter, "date_range", Window(Date_not_iso, Date_2020_01_01)),
     With(NoFilter, "date_range", NullDate)}

\* grouping_criteria values
By(b) == With(EmptyCriteria, "by", b)

LowThreshold == (15 * One) \div 100

SelectCriteria ==
    {NoCriteria, EmptyCriteria, With(EmptyCriteria, "threshold", LowThreshold)}
    \cup {By(b) : b \in {"cluster", "similarity", "platform", "region", "time", "severity"}}
    \cup {With(By(b), "threshold", LowThreshold) : b \in {"cluster", "similarity"}}
    \cup {With(c, "filter", f) : c \in {EmptyCriteria, By("platform"), By("severity")},
                                 f \in Filters}
    \cup {With(By(b), "filter", f) :
             b \in {"region", "time"},
             f \in {With(NoFilter, "source", "ncmec"),
                    With(NoFilter, "date_range", Window(Date_2020_01_01, Date_2020_03_01))}}

\* the case a caller adds to a group it was handed
AddedCase == WithId(BlankCase, "X")

\* cases after the call: filtered_cases is `cases` itself or a new list, and
\* neither is written during the call
cases_after_select(cs) == cs

(***************************************************************************)
(* SpecCore: any one of the six functions of the layer is applied, and the *)
(* caller of select_cases_for_display may then add a case to a group it    *)
(* was handed.                                                             *)
(***************************************************************************)
CoreOps == {"compare", "find", "cluster", "links", "trends", "select"}

InitCore ==
    /\ pc = "call"
    /\ op \in CoreOps
    /\ case1 \in (IF op = "compare" THEN CoreBodies ELSE {BlankCase})
    /\ case2 \in (IF op = "compare" THEN CoreBodies ELSE {BlankCase})
    /\ metrics \in (IF op \in {"compare", "find"} THEN FindMetrics ELSE {NoMetrics})
    /\ target_case \in (IF op = "find" THEN {WithId(Core_A, "C1"), WithId(Core_D, "T")}
                        ELSE {BlankCase})
    /\ IF op = "compare" THEN cases = <<>> ELSE CasesFrom(CoreBodies)
    /\ threshold \in (IF op \in {"find", "cluster"} THEN {LowThreshold, One \div 2} ELSE {0})
    /\ dimension \in (IF op = "cluster" THEN {None, "platform"} ELSE {None})
    /\ grouping_criteria \in (IF op = "select" THEN SelectCriteria ELSE {NoCriteria})
    /\ result = <<>>
    /\ EmptyStorage

Select ==
    /\ op = "select"
    /\ pc = "call"
    /\ pc' = "done"
    /\ result' = select_cases_for_display(cases, grouping_criteria)
    /\ cases' = cases_after_select(cases)
    /\ UNCHANGED <<case1, case2, metrics, target_case, threshold, dimension,
                   grouping_criteria, op>>
    /\ UNCHANGED storage_vars

\* group.append(case) by the caller, on a group of the returned list: a group
\* that is the list `cases` itself is the caller's collection
CallerAppends ==
    /\ op = "select"
    /\ pc = "done"
    /\ ~result.raised
    /\ \E g \in DOMAIN result.value :
           /\ result' = [result EXCEPT !.value[g] = Append(@, AddedCase)]
           /\ cases' = IF result.refs[g] = "input" THEN Append(cases, AddedCase) ELSE cases
    /\ pc' = "changed"
    /\ UNCHANGED <<case1, case2, metrics, target_case, threshold, dimension,
                   grouping_criteria, op>>
    /\ UNCHANGED storage_vars

NextCore ==
    \/ Compare
    \/ Find
    \/ Cluster
    \/ DetectLinks
    \/ TrendAnalysis
    \/ Select
    \/ CallerAppends

SpecCore == InitCore /\ [][NextCore]_vars

(***************************************************************************)
(* SpecSingle: cluster_cases and find_similar_cases called for a single    *)
(* dimension or metric (or for all of them), with the default threshold    *)
(* 0.5 or a threshold of 0.3.                                              *)
(***************************************************************************)
DefaultThreshold == One \div 2

SingleMetrics == {MetricList({n}) : n \in {"platforms", "methods", "demographics", "time"}}

SingleOps == {"cluster", "find"}

InitSingle ==
    /\ pc = "call"
    /\ op \in SingleOps
    /\ CasesFrom(FindBodies)
    /\ threshold \in {DefaultThreshold, (30 * One) \div 100}
    /\ dimension \in (IF op = "cluster" THEN Dimensions ELSE {None})
    /\ metrics \in (IF op = "find" THEN SingleMetrics \cup {NoMetrics} ELSE {NoMetrics})
    /\ target_case \in (IF op = "find" THEN {WithId(Full_A, "T"), WithId(Full_B, "C1")}
                        ELSE {BlankCase})
    /\ case1 = BlankCase
    /\ case2 = BlankCase
    /\ grouping_criteria = NoCriteria
    /\ result = <<>>
    /\ EmptyStorage

NextSingle == Cluster \/ Find

SpecSingle == InitSingle /\ [][NextSingle]_vars

(***************************************************************************)
(* SpecTime: calculate_time_similarity(date1, date2), on the date_range    *)
(* mappings of two cases.                                                  *)
(***************************************************************************)
Date_2020_12_31 == <<"2", "0", "2", "0", "-", "1", "2", "-", "3", "1">>
Date_2021_01_01 == <<"2", "0", "2", "1", "-", "0", "1", "-", "0", "1">>
Date_2024_12_30 == <<"2", "0", "2", "4", "-", "1", "2", "-", "3", "0">>
Date_2024_12_31 == <<"2", "0", "2", "4", "-", "1", "2", "-", "3", "1">>

\* start values: a day, and the days 60, 365, 366, 531, 1096, 1825, 1826 and
\* 2192 days after it; one with a time of day, two that do not parse
TimeStarts ==
    {Date_2020_01_01, Date_2020_03_01, Date_2020_12_31, Date_2021_01_01, Date_2021_06_15,
     Date_2023_01_01, Date_2024_12_30, Date_2024_12_31, Date_2026_01_01,
     Date_2020_01_01_noon, Date_bad_month, Date_not_iso}

TimeCases == {With(BlankCase, "date_range", StartDate(s)) : s \in TimeStarts}
             \cup {With(BlankCase, "date_range", With(EmptyDate, "end", Date_2020_01_01))}

InitTime ==
    /\ op = "time"
    /\ grouping_criteria = NoCriteria
    /\ pc = "call"
    /\ case1 \in TimeCases
    /\ case2 \in TimeCases
    /\ metrics = NoMetrics
    /\ target_case = BlankCase
    /\ cases = <<>>
    /\ threshold = 0
    /\ dimension = None
    /\ result = 0
    /\ EmptyStorage

TimeSimilarity ==
    /\ op = "time"
    /\ pc = "call"
    /\ pc' = "done"
    /\ result' = calculate_time_similarity(case1.date_range, case2.date_range)
    /\ UNCHANGED <<case1, case2, metrics, target_case, cases, threshold, dimension,
                   grouping_criteria, op>>
    /\ UNCHANGED storage_vars

NextTime == TimeSimilarity

SpecTime == InitTime /\ [][NextTime]_vars

(***************************************************************************)
(* Storage Layer (storage.py).  A table is the sequence of its rows in     *)
(* rowid order.  INSERT OR REPLACE deletes the rows that collide with the  *)
(* new row on a PRIMARY KEY or UNIQUE constraint of the table, and then    *)
(* inserts the new row; on a table without such a constraint it inserts.   *)
(***************************************************************************)
\* longest sequence of storage calls
MaxCalls == 3

\* the values of the analysis variables while the storage layer is used
AnalysisIdle ==
    /\ case1 = BlankCase
    /\ case2 = BlankCase
    /\ metrics = NoMetrics
    /\ target_case = BlankCase
    /\ cases = <<>>
    /\ threshold = 0
    /\ dimension = None
    /\ grouping_criteria = NoCriteria

\* mutant: the table edges without UNIQUE(source_case_id, target_case_id)
EdgesAfterDelete_NoUnique(rows, source_case_id, target_case_id) == rows

\* the rows of edges left when those that collide with a new row on
\* UNIQUE(source_case_id, target_case_id) are deleted; the new row's id is
\* fresh, so no row collides with it on the primary key
EdgesAfterDelete(rows, source_case_id, target_case_id) ==
    SelectSeq(rows, LAMBDA r : ~(/\ r.source_case_id = source_case_id
                                 /\ r.target_case_id = target_case_id))

\* INSERT OR REPLACE INTO edges (source_case_id, target_case_id, weight,
\* relationship_type, properties)
InsertOrReplaceEdge(rows, seq, source_case_id, target_case_id, weight, relationship_type) ==
    Append(EdgesAfterDelete(rows, source_case_id, target_case_id),
           [id |-> seq + 1,
            source_case_id |-> source_case_id,
            target_case_id |-> target_case_id,
            weight |-> weight,
            relationship_type |-> relationship_type])

\* the ids of the cases relationships are stored for
CaseIds == {"C1", "C2"}

\* weights, in units
Weights == {(30 * One) \div 100, One}

\* 'similar' is the default of relationship_type; the others are link types
\* of detect_links
RelationshipTypes == {"similar", "same_platform", "similar_topics"}

(***************************************************************************)
(* SpecGraph: a sequence of GraphStorage.add_relationship calls on a new   *)
(* graph database.                                                         *)
(***************************************************************************)
InitGraph ==
    /\ op = "graph"
    /\ pc = "call"
    /\ AnalysisIdle
    /\ result = <<>>
    /\ EmptyStorage

AddRelationship ==
    /\ op = "graph"
    /\ Len(calls) < MaxCalls
    /\ \E source_case_id \in CaseIds, target_case_id \in CaseIds,
          weight \in Weights, relationship_type \in RelationshipTypes :
           /\ edges' = InsertOrReplaceEdge(edges, edge_seq, source_case_id, target_case_id,
                                           weight, relationship_type)
           /\ calls' = Append(calls, [source_case_id |-> source_case_id,
                                      target_case_id |-> target_case_id,
                                      weight |-> weight,
                                      relationship_type |-> relationship_type])
    /\ edge_seq' = edge_seq + 1
    /\ UNCHANGED <<pc, case1, case2, metrics, target_case, cases, threshold, dimension,
                   grouping_criteria, op, result, case_rows, victim_rows, perp_rows>>

NextGraph == AddRelationship

SpecGraph == InitGraph /\ [][NextGraph]_vars

(***************************************************************************)
(* CaseStorage.store_case and get_case.  Of the row of cases only the id   *)
(* is kept: the other columns are copies of fields of the case that        *)
(* get_case hands back as they are.                                        *)
(***************************************************************************)
\* INSERT OR REPLACE INTO cases: id is the PRIMARY KEY
InsertOrReplaceCase(rows, id) ==
    Append(SelectSeq(rows, LAMBDA r : r.id # id), [id |-> id])

\* the row store_case writes for a demographics mapping
DemoRow(id, demo) ==
    [case_id |-> id,
     age_range |-> DGet(demo, "age_range"),
     region |-> DGet(demo, "region"),
     anonymized_id |-> DGet(demo, "anonymized_id")]

\* `if victim_demo:` INSERT OR REPLACE INTO victim_demographics (likewise
\* perpetrator_demographics): the table has no PRIMARY KEY and no UNIQUE
\* constraint, so nothing collides and the row is added
InsertDemo(rows, id, demo) ==
    IF Truthy(demo) THEN Append(rows, DemoRow(id, demo)) ELSE rows

\* cursor.fetchone() after SELECT * FROM t WHERE case_id = ?: the table is
\* scanned in rowid order, and the first row that matches is taken
NoRow == [found |-> FALSE, row |-> DemoRow(None, EmptyDemo)]

FetchOne(rows, id) ==
    LET matching == SelectSeq(rows, LAMBDA r : r.case_id = id)
    IN  IF matching = <<>> THEN NoRow ELSE [found |-> TRUE, row |-> matching[1]]

\* what get_case returns: None, or the case with the demographics rows found
get_case(id) ==
    IF ~\E k \in DOMAIN case_rows : case_rows[k].id = id
    THEN [found |-> FALSE, id |-> id, victim_demographics |-> NoRow,
          perpetrator_demographics |-> NoRow]
    ELSE [found |-> TRUE, id |-> id,
          victim_demographics |-> FetchOne(victim_rows, id),
          perpetrator_demographics |-> FetchOne(perp_rows, id)]

\* the cases that are stored: the mappings present, or None
StoredBodies ==
    {With(With(BlankCase, "victim_demographics", v), "perpetrator_demographics", p) :
        v \in {NullDemo, Demo("13-15", "EU"), Demo("13-15", "US")},
        p \in {NullDemo, Perp("30-40", "EU", "P1")}}

(***************************************************************************)
(* SpecCases: a sequence of CaseStorage.store_case calls on a new          *)
(* database, and get_case calls in between.                                *)
(***************************************************************************)
InitCases ==
    /\ op = "cases"
    /\ pc = "call"
    /\ AnalysisIdle
    /\ result = <<>>
    /\ EmptyStorage

StoreCase ==
    /\ op = "cases"
    /\ Len(calls) < MaxCalls
    /\ \E id \in CaseIds, body \in StoredBodies :
           LET case == WithId(body, id)
           IN  /\ case_rows' = InsertOrReplaceCase(case_rows, Get(case, "id", None))
               /\ victim_rows' = InsertDemo(victim_rows, Get(case, "id", None),
                                            Get(case, "victim_demographics", NullDemo))
               /\ perp_rows' = InsertDemo(perp_rows, Get(case, "id", None),
                                          Get(case, "perpetrator_demographics", NullDemo))
               /\ calls' = Append(calls, case)
    /\ pc' = "call"
    /\ result' = TRUE
    /\ UNCHANGED <<case1, case2, metrics, target_case, cases, threshold, dimension,
                   grouping_criteria, op, edges, edge_seq>>

GetCase ==
    /\ op = "cases"
    /\ pc = "call"
    /\ \E id \in CaseIds : result' = get_case(id)
    /\ pc' = "done"
    /\ UNCHANGED <<case1, case2, metrics, target_case, cases, threshold, dimension,
                   grouping_criteria, op>>
    /\ UNCHANGED storage_vars

NextCases == StoreCase \/ GetCase

SpecCases == InitCases /\ [][NextCases]_vars

\* the scored fields of c other than platforms_used hold no data
OnlyPlatformData(c) ==
    /\ Get(c, "technologies", <<>>) = <<>>
    /\ Get(c, "communication_methods", <<>>) = <<>>
    /\ ~Truthy(Get(c, "victim_demographics", EmptyDemo))
    /\ ~Truthy(Get(c, "perpetrator_demographics", EmptyDemo))
    /\ ~Truthy(Get(c, "date_range", EmptyDate))

\* every scored field of c is populated
FullyPopulated(c) ==
    /\ Get(c, "platforms_used", <<>>) # <<>>
    /\ Get(c, "technologies", <<>>) # <<>>
    /\ Get(c, "communication_methods", <<>>) # <<>>
    /\ LET v == Get(c, "victim_demographics", EmptyDemo)
       IN  ~v.null /\ {"age_range", "region"} \subseteq v.keys
    /\ LET p == Get(c, "perpetrator_demographics", EmptyDemo)
       IN  /\ ~p.null /\ {"age_range", "region", "anonymized_id"} \subseteq p.keys
           /\ TruthyStr(p.anonymized_id)
    /\ LET d == Get(c, "date_range", EmptyDate)
       IN  ~d.null /\ HasStart(d) /\ Parses(d.start)

\* C1: whatever the two cases and the metrics, the score returned by
\* compare_cases lies between 0 and 1 (One units).
C1_ScoreInUnitInterval == pc = "done" => result >= 0 /\ result <= One

\* C1 witness: a comparison of two different cases, one of them only partly
\* populated, has returned a score strictly inside the interval.
C1_Witness ==
    /\ pc = "done"
    /\ case1 \in FullCases /\ case2 \notin FullCases
    /\ result > 0 /\ result < One

\* C3: two cases whose only data is the same non-empty set of platforms
\* score exactly 0.30 under `all`: the single weighted component, not
\* divided by the weight that applied.
C3_PlatformOnlyScore ==
    (/\ pc = "done"
     /\ "all" \in MetricsOrAll(metrics)
     /\ OnlyPlatformData(case1) /\ OnlyPlatformData(case2)
     /\ SetOf(Get(case1, "platforms_used", <<>>)) # {}
     /\ SetOf(Get(case1, "platforms_used", <<>>)) = SetOf(Get(case2, "platforms_used", <<>>)))
    => result = (PlatformWeight * One) \div 100

\* C3 witness: the scenario itself, platforms_used = ["Discord"] on both
\* sides and nothing else, compared with metrics = None.
C3_Witness ==
    /\ pc = "done"
    /\ metrics = NoMetrics
    /\ case1 = With(BlankCase, "platforms_used", <<"Discord">>)
    /\ case2 = case1
    /\ result = (30 * One) \div 100

\* C4: a case with every scored field populated, compared with itself under
\* `all`, scores the sum of the six weights, 1.0.
C4_FullSelfScore ==
    (/\ pc = "done"
     /\ "all" \in MetricsOrAll(metrics)
     /\ case1 = case2
     /\ FullyPopulated(case1))
    => result = One

\* C4 witness: such a self-comparison has been made.
C4_Witness ==
    /\ pc = "done"
    /\ metrics = NoMetrics
    /\ case1 = case2
    /\ FullyPopulated(case1)
    /\ result = One

\* the number of places of the clusters at which the case c occurs
Occurrences(clusters, c) ==
    SumSeq([k \in DOMAIN clusters |->
               Cardinality({l \in DOMAIN clusters[k] : clusters[k][l] = c})])

\* C2: the clusters are a partition of the input: every input case occurs in
\* exactly one place of the output, the sizes add up to the input length, no
\* cluster is empty, and the empty list gives the empty list.
C2_ClusterPartition ==
    pc = "done" =>
        /\ \A i \in DOMAIN cases : Occurrences(result, cases[i]) = 1
        /\ SumSeq([k \in DOMAIN result |-> Len(result[k])]) = Len(cases)
        /\ \A k \in DOMAIN result : result[k] # <<>>
        /\ \A k \in DOMAIN result : \A l \in DOMAIN result[k] :
               \E i \in DOMAIN cases : cases[i] = result[k][l]
        /\ cases = <<>> => result = <<>>

\* C2 witness: a list of three cases has been split into a cluster of two
\* and a singleton.
C2_Witness ==
    /\ pc = "done"
    /\ Len(cases) = 3
    /\ Len(result) = 2
    /\ \E k \in DOMAIN result : Len(result[k]) = 2

\* whether the case at position i of all_cases is to be returned
Wanted(i) ==
    /\ cases[i].id # target_case.id
    /\ compare_cases(target_case, cases[i], metrics) >= threshold

\* C5: find_similar_cases returns exactly the cases whose id differs from the
\* target's and whose score against the target is >= threshold, each once and
\* paired with that score; none of them has the target's id.
C5_FindExactlyQualifying ==
    pc = "done" =>
        /\ \A k \in DOMAIN result :
               \E i \in DOMAIN cases :
                   /\ Wanted(i)
                   /\ result[k] = <<cases[i], compare_cases(target_case, cases[i], metrics)>>
        /\ \A i \in DOMAIN cases : Wanted(i) => \E k \in DOMAIN result : result[k][1] = cases[i]
        /\ Len(result) = Cardinality({i \in DOMAIN cases : Wanted(i)})
        /\ \A k \in DOMAIN result : result[k][1].id # target_case.id

\* C5 witness: the target is in the list together with a case that scores
\* exactly the threshold and one that scores below it; the first is returned,
\* the target and the second are not.
C5_Witness ==
    /\ pc = "done"
    /\ Len(cases) = 3
    /\ \E i \in DOMAIN cases : cases[i].id = target_case.id
    /\ \E i \in DOMAIN cases :
           /\ cases[i].id # target_case.id
           /\ compare_cases(target_case, cases[i], metrics) = threshold
    /\ \E i \in DOMAIN cases :
           /\ cases[i].id # target_case.id
           /\ compare_cases(target_case, cases[i], metrics) < threshold
    /\ Len(result) = 1

\* the position in all_cases of a returned case
InputPosition(c) == CHOOSE i \in DOMAIN cases : cases[i] = c

\* C6: the returned list is non-increasing by score, and entries of equal
\* score are in the order they had in all_cases.
C6_FindSortedStable ==
    pc = "done" =>
        \A k \in DOMAIN result : \A l \in DOMAIN result :
            k < l =>
                /\ result[k][2] >= result[l][2]
                /\ result[k][2] = result[l][2]
                       => InputPosition(result[k][1]) < InputPosition(result[l][1])

\* C6 witness: three cases were returned, two of them tied and the third,
\* which came first in all_cases, with a lower score.
C6_Witness ==
    /\ pc = "done"
    /\ Len(result) = 3
    /\ result[1][2] = result[2][2]
    /\ result[2][2] > result[3][2]
    /\ InputPosition(result[3][1]) = 1

\* how often the tuple x occurs in the list s
CountOf(s, x) == Cardinality({k \in DOMAIN s : s[k] = x})

\* the tuples detect_links has emitted (none when it raised)
Emitted == result.value

\* the anonymized_id of a case's perpetrator, None when it has none (the
\* mapping is missing, null or empty, or lacks the key)
PerpIdOf(c) ==
    LET p == Get(c, "perpetrator_demographics", EmptyDemo)
    IN  IF p.null THEN None ELSE DGet(p, "anonymized_id")

SamePerp(c, d) == TruthyStr(PerpIdOf(c)) /\ PerpIdOf(c) = PerpIdOf(d)

\* C7: every two cases that share a non-empty anonymized_id get exactly one
\* same_perpetrator tuple, written (earlier id, later id); no other
\* same_perpetrator tuple is emitted, so a case without an anonymized_id takes
\* part in none.
C7_SamePerpetratorPairs ==
    pc = "done" =>
        /\ \A i \in DOMAIN cases : \A j \in DOMAIN cases :
               (i < j /\ SamePerp(cases[i], cases[j])) =>
                   /\ CountOf(Emitted, <<cases[i].id, cases[j].id, "same_perpetrator">>) = 1
                   /\ CountOf(Emitted, <<cases[j].id, cases[i].id, "same_perpetrator">>) = 0
        /\ \A k \in DOMAIN Emitted :
               Emitted[k][3] = "same_perpetrator" =>
                   \E i \in DOMAIN cases : \E j \in DOMAIN cases :
                       /\ i < j /\ SamePerp(cases[i], cases[j])
                       /\ Emitted[k] = <<cases[i].id, cases[j].id, "same_perpetrator">>

\* the platform strings two cases share
SharedPlatforms(c, d) ==
    SetOf(Get(c, "platforms_used", <<>>)) \cap SetOf(Get(d, "platforms_used", <<>>))

\* the same_platform tuples emitted for the two cases, in either order
PlatformTuples(c, d) ==
    CountOf(Emitted, <<c.id, d.id, "same_platform">>)
    + CountOf(Emitted, <<d.id, c.id, "same_platform">>)

\* C8: for every two distinct cases the number of same_platform tuples
\* emitted for them is the number of platform strings they share.
C8_PlatformTuplesPerPair ==
    pc = "done" =>
        \A i \in DOMAIN cases : \A j \in DOMAIN cases :
            i < j => PlatformTuples(cases[i], cases[j])
                       = Cardinality(SharedPlatforms(cases[i], cases[j]))

\* the values of a list field two cases share
SharedValues(c, d, field) == SetOf(Get(c, field, <<>>)) \cap SetOf(Get(d, field, <<>>))

\* C9: for positions i < j, similar_investigation is emitted for the pair if
\* and only if the cases share at least 2 investigation_methods_and_teams
\* values, and similar_topics if and only if they share at least 2
\* case_topics values, whatever else holds of the pair.
C9_PatternLinks ==
    pc = "done" =>
        \A i \in DOMAIN cases : \A j \in DOMAIN cases :
            i < j =>
                /\ CountOf(Emitted, <<cases[i].id, cases[j].id, "similar_investigation">>) > 0
                       <=> Cardinality(SharedValues(cases[i], cases[j],
                                                    "investigation_methods_and_teams")) >= 2
                /\ CountOf(Emitted, <<cases[i].id, cases[j].id, "similar_topics">>) > 0
                       <=> Cardinality(SharedValues(cases[i], cases[j], "case_topics")) >= 2

\* the positions of the cases trend_analysis dates to the year y
DatedIn(y) == {i \in DOMAIN cases : IsDated(cases[i]) /\ YearOf(cases[i]) = y}

\* the calendar years that have at least one dated case
DatedYears == {YearOf(cases[i]) : i \in {j \in DOMAIN cases : IsDated(cases[j])}}

\* the entries of the year's lists: <<position of the case, place in its list>>
Entries(y, field) ==
    UNION {{<<i, l>> : l \in DOMAIN Get(cases[i], field, <<>>)} : i \in DatedIn(y)}

ValueAt(e, field) == Get(cases[e[1]], field, <<>>)[e[2]]

ValuesOf(y, field) == {ValueAt(e, field) : e \in Entries(y, field)}

\* the occurrence count of v: the number of entries that hold it
Occurs(y, field, v) == Cardinality({e \in Entries(y, field) : ValueAt(e, field) = v})

Earlier(e, f) == e[1] < f[1] \/ (e[1] = f[1] /\ e[2] < f[2])

\* the occurrence counts of the 5 most frequent values of the year, where v
\* ranks before w when it is more frequent, or as frequent and seen first
TopCounts(y, field) ==
    LET entries == Entries(y, field)
        values == {ValueAt(e, field) : e \in entries}
        occurs == [v \in values |-> Cardinality({e \in entries : ValueAt(e, field) = v})]
        firstSeen == [v \in values |->
                         CHOOSE e \in entries :
                             /\ ValueAt(e, field) = v
                             /\ \A f \in entries : ValueAt(f, field) = v => ~Earlier(f, e)]
        ranksBefore(v, w) ==
            \/ occurs[v] > occurs[w]
            \/ occurs[v] = occurs[w] /\ Earlier(firstSeen[v], firstSeen[w])
        top == {v \in values : Cardinality({w \in values : ranksBefore(w, v)}) < 5}
    IN  {<<v, occurs[v]>> : v \in top}

\* the dict trend is one whose keys are the years with a dated case, each
\* mapped to the occurrence counts of the year's 5 most frequent values
TrendIsTopCounts(trend, field) ==
    /\ {trend[k][1] : k \in DOMAIN trend} = DatedYears
    /\ Len(trend) = Cardinality(DatedYears)
    /\ \A k \in DOMAIN trend :
           LET expected == TopCounts(trend[k][1], field)
           IN  /\ SetOf(trend[k][2]) = expected
               /\ Len(trend[k][2]) = Cardinality(expected)

\* C10: platform_trends maps every year with a dated case to the occurrence
\* counts of the 5 most frequent platforms_used values of that year's cases,
\* ties going to the value seen first; technology_trends does the same for
\* technologies.
C10_TopFivePerYear ==
    pc = "done" =>
        /\ TrendIsTopCounts(result.platform_trends, "platforms_used")
        /\ TrendIsTopCounts(result.technology_trends, "technologies")

\* C10 witness: a year whose cases use more than 5 platforms has been
\* analysed; 5 were kept, and a platform that was dropped is as frequent as
\* one that was kept.
C10_Witness ==
    /\ pc = "done"
    /\ \E k \in DOMAIN result.platform_trends :
           LET y == result.platform_trends[k][1]
               kept == {result.platform_trends[k][2][l][1] :
                           l \in DOMAIN result.platform_trends[k][2]}
           IN  /\ Cardinality(ValuesOf(y, "platforms_used")) > 5
               /\ Cardinality(kept) = 5
               /\ \E v \in ValuesOf(y, "platforms_used") \ kept : \E w \in kept :
                      Occurs(y, "platforms_used", v) = Occurs(y, "platforms_used", w)

\* the entries of a list field over the whole collection
AllEntries(field) ==
    UNION {{<<i, l>> : l \in DOMAIN Get(cases[i], field, <<>>)} : i \in DOMAIN cases}

\* whether date_range.start of the case is missing (no date_range, a null or
\* empty one, no start, an empty start) or is not an ISO date
StartMissingOrUnparseable(c) ==
    \/ "date_range" \notin c.keys
    \/ c.date_range.null
    \/ "start" \notin c.date_range.keys
    \/ c.date_range.start = <<>>
    \/ ~Parses(c.date_range.start)

\* every count reported for a year counts entries of that year's parseable
\* cases only
CountsDatedOnly(trend, field) ==
    \A k \in DOMAIN trend :
        /\ \E i \in DOMAIN cases :
               ~StartMissingOrUnparseable(cases[i]) /\ YearOf(cases[i]) = trend[k][1]
        /\ \A l \in DOMAIN trend[k][2] :
               trend[k][2][l][2]
                   = Cardinality({e \in AllEntries(field) :
                         /\ ~StartMissingOrUnparseable(cases[e[1]])
                         /\ YearOf(cases[e[1]]) = trend[k][1]
                         /\ ValueAt(e, field) = trend[k][2][l][1]})

\* recurring_topics lists the (at most) 10 most frequent case_topics values
\* of the whole collection, in non-increasing frequency
TopicsAreTopTen ==
    LET entries == AllEntries("case_topics")
        topics == {ValueAt(e, "case_topics") : e \in entries}
        freq == [t \in topics |->
                    Cardinality({e \in entries : ValueAt(e, "case_topics") = t})]
        listed == result.recurring_topics
    IN  /\ Len(listed) <= 10
        /\ SetOf(listed) \subseteq topics
        /\ \A k \in DOMAIN listed : \A l \in DOMAIN listed :
               k < l => listed[k] # listed[l] /\ freq[listed[k]] >= freq[listed[l]]
        /\ \A t \in topics \ SetOf(listed) :
               /\ Len(listed) = 10
               /\ \A k \in DOMAIN listed : freq[listed[k]] >= freq[t]

\* C11: a case whose date_range.start is missing or unparseable is counted
\* in no year of platform_trends and technology_trends, yet its case_topics
\* count toward recurring_topics, which lists the at most 10 most frequent
\* case_topics values of the whole collection in non-increasing frequency.
C11_UndatedOnlyInTopics ==
    pc = "done" =>
        /\ CountsDatedOnly(result.platform_trends, "platforms_used")
        /\ CountsDatedOnly(result.technology_trends, "technologies")
        /\ TopicsAreTopTen

\* C11 witness: the collection holds a dated case and undated ones with more
\* than 10 topics between them; a topic that only undated cases carry is
\* listed, 10 topics are listed, and the undated cases' platforms are in no
\* year.
C11_Witness ==
    /\ pc = "done"
    /\ Len(result.recurring_topics) = 10
    /\ Len(result.platform_trends) = 1
    /\ \E i \in DOMAIN cases :
           /\ StartMissingOrUnparseable(cases[i])
           /\ Get(cases[i], "platforms_used", <<>>) # <<>>
           /\ \E t \in SetOf(Get(cases[i], "case_topics", <<>>)) :
                  /\ t \in SetOf(result.recurring_topics)
                  /\ \A j \in DOMAIN cases :
                         t \in SetOf(Get(cases[j], "case_topics", <<>>))
                             => StartMissingOrUnparseable(cases[j])
    /\ \E k \in DOMAIN result.platform_trends[1][2] :
           result.platform_trends[1][2][k][2]
               < Cardinality({e \in AllEntries("platforms_used") :
                     ValueAt(e, "platforms_used") = result.platform_trends[1][2][k][1]})

\* a call of select_cases_for_display has returned or raised
Selected == op = "select" /\ pc = "done"

\* the value of `by` the call goes by
ByOf(criteria) ==
    IF criteria.none \/ "by" \notin criteria.keys THEN "cluster" ELSE criteria.by

\* how often the case with this id occurs in the group
TimesIn(group, id) == Cardinality({k \in DOMAIN group : group[k].id = id})

\* the platform strings of a case
PlatformsOf(c) == SetOf(Get(c, "platforms_used", <<>>))

\* C12: by=platform gives one group per distinct platform of the filtered
\* cases, the group of a platform holding the cases that use it; a case with
\* k platforms is in exactly k groups, once in each, and a case with no
\* platform is in none.
C12_PlatformGroups ==
    (Selected /\ ByOf(grouping_criteria) = "platform") =>
        LET filtered == filtered_cases(cases, grouping_criteria).items
            platforms == UNION {PlatformsOf(filtered[i]) : i \in DOMAIN filtered}
            using(p) == LET uses(c) == p \in PlatformsOf(c) IN SelectSeq(filtered, uses)
        IN  /\ ~result.raised
            /\ Len(result.value) = Cardinality(platforms)
            /\ \A p \in platforms : \E g \in DOMAIN result.value : result.value[g] = using(p)
            /\ \A i \in DOMAIN filtered :
                   /\ \A g \in DOMAIN result.value :
                          TimesIn(result.value[g], filtered[i].id) <= 1
                   /\ Cardinality({g \in DOMAIN result.value :
                                      TimesIn(result.value[g], filtered[i].id) = 1})
                          = Cardinality(PlatformsOf(filtered[i]))

\* the threshold the criteria carry, 0.5 when they carry none
ThresholdIn(criteria) ==
    IF ~criteria.none /\ "threshold" \in criteria.keys THEN criteria.threshold
    ELSE One \div 2

\* C13: with by=cluster, by=similarity, no `by` key or no criteria the groups
\* are exactly the clusters of the filtered cases at the threshold of the
\* criteria (0.5 when absent) under the full metric set.
C13_ClusterAndSimilarity ==
    (Selected /\ ByOf(grouping_criteria) \in {"cluster", "similarity"}) =>
        /\ ~result.raised
        /\ result.value
               = cluster_cases(IF ~grouping_criteria.none /\ "filter" \in grouping_criteria.keys
                               THEN FilteredList(cases, grouping_criteria.filter)
                               ELSE cases,
                               ThresholdIn(grouping_criteria), None)

\* C13 witness: by=similarity with a threshold of 0.15 has put two cases in
\* one group that the default threshold 0.5 keeps apart.
C13_Witness ==
    /\ Selected
    /\ grouping_criteria \in {With(By("similarity"), "threshold", LowThreshold)}
    /\ \E g \in DOMAIN result.value : Len(result.value[g]) = 2
    /\ Len(cluster_cases(cases, One \div 2, None)) = Len(cases)

\* the date and time s is not later than the date and time t
AtOrBefore(s, t) ==
    \/ FromIso(s).ord < FromIso(t).ord
    \/ FromIso(s).ord = FromIso(t).ord /\ FromIso(s).sod <= FromIso(t).sod

\* the filter names a date window whose given bounds are dates
HasWindow(filters) ==
    /\ "date_range" \in filters.keys
    /\ ~filters.date_range.null
    /\ HasStart(filters.date_range) => Parses(filters.date_range.start)
    /\ HasEnd(filters.date_range) => Parses(filters.date_range.end)

\* the start of the case lies in the inclusive window of the filter
InsideWindow(c, window) ==
    /\ HasStart(window) => AtOrBefore(window.start, c.date_range.start)
    /\ HasEnd(window) => AtOrBefore(c.date_range.start, window.end)

\* the case satisfies every predicate the filter gives
Satisfies(c, filters) ==
    /\ "source" \in filters.keys => ("source" \in c.keys /\ c.source = filters.source)
    /\ "platforms" \in filters.keys => PlatformsOf(c) \cap SetOf(filters.platforms) # {}
    /\ HasWindow(filters) =>
           (StartMissingOrUnparseable(c) \/ InsideWindow(c, filters.date_range))

\* the filter gives no date predicate, or one with a window of dates
WellFormed(filters) ==
    ("date_range" \in filters.keys /\ ~filters.date_range.null) => HasWindow(filters)

\* whether the grouping has a group for the case
Groupable(c, by) ==
    CASE by = "platform" -> PlatformsOf(c) # {}
      [] by = "region" ->
             LET v == Get(c, "victim_demographics", EmptyDemo)
             IN  ~v.null /\ TruthyStr(DGet(v, "region"))
      [] by = "time" -> ~StartMissingOrUnparseable(c)
      [] OTHER -> TRUE

\* C14: with a filter, the cases that are grouped are exactly the cases that
\* satisfy every predicate it gives (source equal, a platform shared, start
\* inside the inclusive window), in input order; a case whose start is
\* missing or unparseable passes the date predicate.
C14_FilterKeepsMatching ==
    (/\ Selected
     /\ ~grouping_criteria.none
     /\ "filter" \in grouping_criteria.keys
     /\ WellFormed(grouping_criteria.filter)) =>
        LET keep(c) == Satisfies(c, grouping_criteria.filter)
            expected == SelectSeq(cases, keep)
            by == ByOf(grouping_criteria)
            groups == result.value
        IN  /\ ~result.raised
            /\ \A g \in DOMAIN groups : \A k \in DOMAIN groups[g] :
                   /\ \E i \in DOMAIN expected : expected[i] = groups[g][k]
                   /\ \A l \in DOMAIN groups[g] :
                          k < l => InputPosition(groups[g][k]) <= InputPosition(groups[g][l])
            /\ \A i \in DOMAIN expected :
                   Groupable(expected[i], by) =>
                       \E g \in DOMAIN groups : TimesIn(groups[g], expected[i].id) > 0
            /\ by \notin {"cluster", "similarity", "platform", "region", "time"}
                   => groups = <<expected>>

\* the call ended by raising an exception; compare_cases, find_similar_cases,
\* cluster_cases and trend_analysis return a value on every input
CallRaised == op \in {"links", "select"} /\ result.raised

\* C15: none of the six functions raises, whatever fields of a case are
\* absent or null and whatever the date strings.
C15_NeverRaises == pc = "done" => ~CallRaised

C17_GroupsAreFresh ==
    [][(Selected /\ ~result.raised) =>
           /\ \A g \in DOMAIN result.refs : result.refs[g] # "input"
           /\ cases' = cases]_vars

\* the two cases hold no data in the demographics and date_range fields
OnlyListData(c) ==
    /\ ~Truthy(Get(c, "victim_demographics", EmptyDemo))
    /\ ~Truthy(Get(c, "perpetrator_demographics", EmptyDemo))
    /\ ~Truthy(Get(c, "date_range", EmptyDate))

\* |A n B| / |A u B| times the weight (in hundredths), in units; nothing
\* when both sets are empty
JaccardShare(c1, c2, field, w) ==
    LET a == SetOf(Get(c1, field, <<>>))
        b == SetOf(Get(c2, field, <<>>))
    IN  IF a = {} /\ b = {} THEN 0
        ELSE (Cardinality(a \cap b) * w * (One \div 100)) \div Cardinality(a \cup b)

\* whether the metrics argument asks for the sub-metric
Asks(m, name) == m.none \/ "all" \in m.items \/ name \in m.items

\* C18: each of platforms_used, technologies and communication_methods
\* contributes its weight times |A n B| / |A u B|: the full weight for equal
\* non-empty sets, nothing when both sets are empty.
C18_JaccardComponents ==
    (pc = "done" /\ op = "compare" /\ OnlyListData(case1) /\ OnlyListData(case2)) =>
        result = (IF Asks(metrics, "platforms")
                  THEN JaccardShare(case1, case2, "platforms_used", 30) ELSE 0)
                 + (IF Asks(metrics, "methods")
                    THEN JaccardShare(case1, case2, "technologies", 20)
                         + JaccardShare(case1, case2, "communication_methods", 15)
                    ELSE 0)

\* C18 witness: platform sets {Discord} and {Discord, Telegram}, both
\* technologies sets empty: the score is half the platform weight.
C18_Witness ==
    /\ pc = "done" /\ op = "compare" /\ metrics.none
    /\ OnlyListData(case1) /\ OnlyListData(case2)
    /\ SetOf(Get(case1, "platforms_used", <<>>)) = {"Discord"}
    /\ SetOf(Get(case2, "platforms_used", <<>>)) = {"Discord", "Telegram"}
    /\ Get(case1, "technologies", <<>>) = <<>> /\ Get(case2, "technologies", <<>>) = <<>>
    /\ result = (15 * One) \div 100

\* the two cases hold data in date_range only, with starts that are dates
OnlyDates(c) ==
    /\ Get(c, "platforms_used", <<>>) = <<>>
    /\ Get(c, "technologies", <<>>) = <<>>
    /\ Get(c, "communication_methods", <<>>) = <<>>
    /\ ~Truthy(Get(c, "victim_demographics", EmptyDemo))
    /\ ~Truthy(Get(c, "perpetrator_demographics", EmptyDemo))
    /\ ~StartMissingOrUnparseable(c)

\* the whole days between two dates (with times of day)
DaysApart(s, t) ==
    IF AtOrBefore(s, t)
    THEN (FromIso(t).ord - FromIso(s).ord) - (IF FromIso(t).sod < FromIso(s).sod THEN 1 ELSE 0)
    ELSE (FromIso(s).ord - FromIso(t).ord) - (IF FromIso(s).sod < FromIso(t).sod THEN 1 ELSE 0)

\* 0.10 * (1 - d/365) up to 365 days, 0.10 * max(0, 1 - d/1825) beyond, in units
TimeShare(d) ==
    IF d <= 365 THEN ((365 - d) * 10 * (One \div 100)) \div 365
    ELSE IF d >= 1825 THEN 0
    ELSE ((1825 - d) * 10 * (One \div 100)) \div 1825

\* C19: two cases whose starts are d days apart get the time component
\* 1 - d/365 when d <= 365 and max(0, 1 - d/1825) otherwise, which enters
\* the score multiplied by 0.10.
C19_TimeComponent ==
    (/\ pc = "done" /\ op = "compare"
     /\ OnlyDates(case1) /\ OnlyDates(case2)
     /\ Asks(metrics, "time")) =>
        result = TimeShare(DaysApart(case1.date_range.start, case2.date_range.start))

\* the two cases hold data in victim_demographics only
OnlyVictims(c) ==
    /\ Get(c, "platforms_used", <<>>) = <<>>
    /\ Get(c, "technologies", <<>>) = <<>>
    /\ Get(c, "communication_methods", <<>>) = <<>>
    /\ Truthy(Get(c, "victim_demographics", EmptyDemo))
    /\ ~Truthy(Get(c, "perpetrator_demographics", EmptyDemo))
    /\ ~Truthy(Get(c, "date_range", EmptyDate))

\* the attribute is present on both sides and equal
BothHaveEqual(v1, v2, k) == k \in v1.keys /\ k \in v2.keys /\ v1[k] = v2[k]

\* C20: the victim component is 0.5 for age_range plus 0.5 for region, each
\* only when the attribute is present on both sides and equal; it enters the
\* score multiplied by 0.15.
C20_VictimComponent ==
    (/\ pc = "done" /\ op = "compare"
     /\ OnlyVictims(case1) /\ OnlyVictims(case2)
     /\ Asks(metrics, "demographics")) =>
        result = ((IF BothHaveEqual(case1.victim_demographics,
                                    case2.victim_demographics, "age_range") THEN 5 ELSE 0)
                  + (IF BothHaveEqual(case1.victim_demographics,
                                      case2.victim_demographics, "region") THEN 5 ELSE 0))
                 * 15 * (One \div 1000)

RECURSIVE WithoutRepeats(_)
\* the list s with every repeated entry dropped, first occurrences kept in
\* place
WithoutRepeats(s) ==
    IF s = <<>> THEN <<>>
    ELSE LET front == SubSeq(s, 1, Len(s) - 1)
             last == s[Len(s)]
         IN  IF last \in SetOf(front) THEN WithoutRepeats(front)
             ELSE Append(WithoutRepeats(front), last)

\* the case list with platforms_used of every case freed of repeats
PlatformsOnce(cs) ==
    [i \in DOMAIN cs |->
        IF "platforms_used" \in cs[i].keys
        THEN With(cs[i], "platforms_used", WithoutRepeats(cs[i].platforms_used))
        ELSE cs[i]]

\* some case of the list repeats a string inside its platforms_used
RepeatsPlatform(cs) == PlatformsOnce(cs) # cs

\* C21: repeating a string inside a case's platforms_used changes nothing:
\* detect_links, trend_analysis and select_cases_for_display by=platform
\* return what they return for the list without the repeats (the groups of
\* select holding the cases as given), and detect_links emits no tuple whose
\* two ids are the same.
C21_RepeatsChangeNothing ==
    pc = "done" =>
        /\ op = "links" =>
               /\ result = detect_links(PlatformsOnce(cases))
               /\ \A k \in DOMAIN result.value : result.value[k][1] # result.value[k][2]
        /\ op = "trends" => result = trend_analysis(PlatformsOnce(cases))
        /\ (op = "select" /\ ByOf(grouping_criteria) = "platform" /\ ~result.raised) =>
               LET once == select_cases_for_display(PlatformsOnce(cases), grouping_criteria).value
               IN  /\ Len(result.value) = Len(once)
                   /\ \A g \in DOMAIN result.value :
                          [k \in DOMAIN result.value[g] |-> result.value[g][k].id]
                              = [k \in DOMAIN once[g] |-> once[g][k].id]

\* the score cluster_cases computes for two cases under the call's dimension
SeedScore(seed, member) == compare_cases(seed, member, DimensionMetrics(dimension))

\* the metrics the spec names for a dimension
MetricsFor(dim) ==
    CASE dim = "platform" -> {"platforms"}
      [] dim = "method" -> {"methods"}
      [] dim = "region" -> {"demographics"}
      [] dim = "time" -> {"time"}
      [] OTHER -> {"all"}

\* C22: in every cluster the first element is the seed, the member that comes
\* first in the input, and every other member scores >= threshold against
\* the seed under the metrics of the dimension (platforms, methods,
\* demographics, time, else all); what a member scores against another
\* member plays no part.
C22_MembersSimilarToSeed ==
    (op = "cluster" /\ pc = "done") =>
        /\ MetricsOrAll(DimensionMetrics(dimension)) = MetricsFor(dimension)
        /\ \A k \in DOMAIN result : \A l \in 2..Len(result[k]) :
               /\ InputPosition(result[k][1]) < InputPosition(result[k][l])
               /\ SeedScore(result[k][1], result[k][l]) >= threshold

\* C22 witness: under a single dimension a cluster holds its seed and two
\* members that are similar to the seed and not to each other.
C22_Witness ==
    /\ op = "cluster" /\ pc = "done"
    /\ dimension = "platform"
    /\ threshold > 0
    /\ \E k \in DOMAIN result :
           /\ Len(result[k]) = 3
           /\ SeedScore(result[k][2], result[k][3]) < threshold

\* C23: clusters come in the order of their seeds in the input: the first
\* cluster is seeded by the first input case, seed positions strictly
\* increase from cluster to cluster, and inside a cluster the members follow
\* the seed in input order.
C23_ClusterOrder ==
    (op = "cluster" /\ pc = "done") =>
        /\ cases # <<>> => (result # <<>> /\ result[1][1] = cases[1])
        /\ \A k \in DOMAIN result : \A n \in DOMAIN result :
               k < n => InputPosition(result[k][1]) < InputPosition(result[n][1])
        /\ \A k \in DOMAIN result : \A l \in DOMAIN result[k] : \A n \in DOMAIN result[k] :
               l < n => InputPosition(result[k][l]) < InputPosition(result[k][n])

\* C23 witness: the first and the third case form the first cluster and the
\* second case, left out by the first seed, the second cluster.
C23_Witness ==
    /\ op = "cluster" /\ pc = "done"
    /\ Len(cases) = 3
    /\ result = <<<<cases[1], cases[3]>>, <<cases[2]>>>>

\* C24: a case joins the first seed, in input order, that it is similar to:
\* against the seed of every earlier cluster, the seed of a cluster and each
\* of its other members score below the threshold.
C24_JoinsFirstSimilarSeed ==
    (op = "cluster" /\ pc = "done") =>
        \A k \in DOMAIN result : \A n \in DOMAIN result :
            k < n => \A l \in DOMAIN result[n] :
                         SeedScore(result[k][1], result[n][l]) < threshold

\* C24 witness: a second cluster with a seed and a further member, neither
\* of them similar to the seed of the first cluster.
C24_Witness ==
    /\ op = "cluster" /\ pc = "done"
    /\ Len(result) = 2
    /\ Len(result[2]) = 2
    /\ SeedScore(result[1][1], result[2][1]) < threshold
    /\ SeedScore(result[1][1], result[2][2]) < threshold

\* the position in the input of the case with this id
PositionOfId(id) == CHOOSE i \in DOMAIN cases : cases[i].id = id

\* the part of the output a tuple of this kind belongs to
PartOf(kind) ==
    CASE kind = "same_perpetrator" -> 1
      [] kind = "same_platform" -> 2
      [] OTHER -> 3

\* the pair of the tuple t is, in (i < j) enumeration order, before that of u
PairBefore(t, u) ==
    \/ PositionOfId(t[1]) < PositionOfId(u[1])
    \/ PositionOfId(t[1]) = PositionOfId(u[1]) /\ PositionOfId(t[2]) < PositionOfId(u[2])

SamePair(t, u) == t[1] = u[1] /\ t[2] = u[2]

\* C25: the output of detect_links is ordered by the input: the
\* same_perpetrator tuples, then the same_platform tuples, then the pattern
\* tuples in (i < j) pair order with similar_investigation before
\* similar_topics for one pair; and the first id of every tuple is that of a
\* case which comes earlier in the input than the case of the second id.
C25_LinkOrder ==
    (op = "links" /\ pc = "done" /\ ~result.raised) =>
        /\ \A k \in DOMAIN Emitted : \A n \in DOMAIN Emitted :
               k < n =>
                   /\ PartOf(Emitted[k][3]) <= PartOf(Emitted[n][3])
                   /\ (PartOf(Emitted[k][3]) = 3 /\ PartOf(Emitted[n][3]) = 3) =>
                          \/ PairBefore(Emitted[k], Emitted[n])
                          \/ /\ SamePair(Emitted[k], Emitted[n])
                             /\ Emitted[k][3] = "similar_investigation"
                             /\ Emitted[n][3] = "similar_topics"
        /\ \A k \in DOMAIN Emitted :
               PositionOfId(Emitted[k][1]) < PositionOfId(Emitted[k][2])

\* C26: the score is symmetric: compare_cases gives the same score for
\* (case1, case2) and for (case2, case1), under every metrics argument and
\* also when a date_range.start carries a time of day.
C26_ScoreSymmetric ==
    (op = "compare" /\ pc = "done") => result = compare_cases(case2, case1, metrics)

\* the start of a case of SpecTime is a date that parses
StartParses(c) == HasStart(c.date_range) /\ Parses(c.date_range.start)

\* days_diff of two cases whose starts parse
DaysDiff(c, d) == Abs(DeltaDays(FromIso(c.date_range.start), FromIso(d.date_range.start)))

\* a time score, as a number of units
InUnits(r) == Weighted(r, 100)

SingleDimensions == {"platform", "method", "region", "time"}

\* the sum of the weights a single metric can contribute, in hundredths
WeightOf(metric) ==
    CASE metric = "platforms" -> PlatformWeight
      [] metric = "methods" -> TechWeight + CommWeight
      [] metric = "demographics" -> VictimWeight + PerpWeight
      [] metric = "time" -> TimeWeight

\* the score of two cases under m stays within the weight of the metric
Within(c, d, m, metric) == compare_cases(c, d, m) <= WeightOf(metric) * (One \div 100)

\* C28: with a single dimension the score is at most that dimension's
\* weights (0.30, 0.35, 0.25, 0.10), so with the default threshold 0.5
\* cluster_cases for dimension platform, method, region or time returns
\* singletons only, and find_similar_cases for the single metric returns the
\* empty list.
C28_SingleDimensionBelowDefault ==
    pc = "done" =>
        /\ (op = "cluster" /\ dimension \in SingleDimensions) =>
               /\ \A i \in DOMAIN cases : \A j \in DOMAIN cases :
                      \A n \in MetricsFor(dimension) :
                          Within(cases[i], cases[j], DimensionMetrics(dimension), n)
               /\ threshold = DefaultThreshold =>
                      (Len(result) = Len(cases) /\ \A k \in DOMAIN result : Len(result[k]) = 1)
        /\ (op = "find" /\ metrics \in SingleMetrics) =>
               /\ \A i \in DOMAIN cases : \A n \in metrics.items :
                      Within(target_case, cases[i], metrics, n)
               /\ threshold = DefaultThreshold => result = <<>>

\* C28 witness: three cases were clustered by method with the default
\* threshold, two of them scoring the whole 0.35 against each other, and each
\* is a cluster of its own.
C28_Witness ==
    /\ op = "cluster" /\ pc = "done"
    /\ dimension = "method"
    /\ threshold = DefaultThreshold
    /\ Len(cases) = 3
    /\ compare_cases(cases[1], cases[2], DimensionMetrics(dimension))
           = (TechWeight + CommWeight) * (One \div 100)
    /\ result = <<<<cases[1]>>, <<cases[2]>>, <<cases[3]>>>>

\* the add_relationship calls made for the ordered pair (s, t)
CallsFor(s, t) ==
    {k \in DOMAIN calls : calls[k].source_case_id = s /\ calls[k].target_case_id = t}

\* the latest of a non-empty set of calls
Latest(ks) == CHOOSE k \in ks : \A n \in ks : n <= k

\* C29: after any sequence of add_relationship calls edges holds one row for
\* every ordered (source_case_id, target_case_id) pair a call was made for,
\* and no other row; the row carries the weight and the relationship_type of
\* the latest call for the pair, so of several link tuples stored for one
\* pair only the last is kept.
C29_OneEdgePerPair ==
    op = "graph" =>
        /\ \A i \in DOMAIN edges : \A j \in DOMAIN edges :
               (/\ edges[i].source_case_id = edges[j].source_case_id
                /\ edges[i].target_case_id = edges[j].target_case_id) => i = j
        /\ \A i \in DOMAIN edges :
               LET ks == CallsFor(edges[i].source_case_id, edges[i].target_case_id)
               IN  /\ ks # {}
                   /\ edges[i].weight = calls[Latest(ks)].weight
                   /\ edges[i].relationship_type = calls[Latest(ks)].relationship_type
        /\ \A k \in DOMAIN calls :
               \E i \in DOMAIN edges :
                   /\ edges[i].source_case_id = calls[k].source_case_id
                   /\ edges[i].target_case_id = calls[k].target_case_id

\* C29 witness: the tuples same_platform and similar_topics of the pair
\* (C1, C2) were stored one after the other, and a relationship the other
\* way round; edges holds the similar_topics row and the reverse row.
C29_Witness ==
    /\ op = "graph"
    /\ Len(calls) = 3
    /\ calls[1].source_case_id = "C1" /\ calls[1].target_case_id = "C2"
    /\ calls[1].relationship_type = "same_platform"
    /\ calls[2].source_case_id = "C1" /\ calls[2].target_case_id = "C2"
    /\ calls[2].relationship_type = "similar_topics"
    /\ calls[3].source_case_id = "C2" /\ calls[3].target_case_id = "C1"
    /\ Len(edges) = 2
    /\ edges[1].relationship_type = "similar_topics"

\* what get_case is to return for a demographics mapping that was stored
Expected(id, demo) ==
    IF Truthy(demo) THEN [found |-> TRUE, row |-> DemoRow(id, demo)] ELSE NoRow

\* the store_case calls made for the id
StoresOf(id) == {k \in DOMAIN calls : calls[k].id = id}

\* C30: get_case(id) returns the victim_demographics and the
\* perpetrator_demographics of the latest store_case for the id, and none
\* where that case had none.
C30_GetReturnsLatestStore ==
    (op = "cases" /\ pc = "done") =>
        /\ result.found <=> StoresOf(result.id) # {}
        /\ result.found =>
               LET last == calls[Latest(StoresOf(result.id))]
               IN  /\ result.victim_demographics
                          = Expected(result.id, Get(last, "victim_demographics", NullDemo))
                   /\ result.perpetrator_demographics
                          = Expected(result.id, Get(last, "perpetrator_demographics", NullDemo))

====
